---- MODULE Spec2Model ----
(***************************************************************************)
(* Model of the welfare-fraud detection services:                          *)
(*   - the scoring stage adapters predict_anomaly and predict_duplicate,   *)
(*   - the /pipeline-basic orchestrator of main.py,                        *)
(*   - the shared-attribute graph builder and its cache,                   *)
(*   - the fraud-network service and the dashboard that read the graph,    *)
(*   - the admin decision store behind /decide and /init-cases.            *)
(* Python values are modelled as tagged records, Python dicts as records   *)
(* whose missing keys hold Absent, and an exception as an outcome that is  *)
(* marked raised.                                                          *)
(***************************************************************************)
EXTENDS Integers, Sequences, FiniteSets, TLC

VARIABLES
    pc,          \* per request: position of pipeline_basic
    doc,         \* per request: the uploaded document
    nlp_result,  \* per request: what extract_nlp returned
    features,    \* per request: the features dict built from nlp_result
    done,        \* per request and stage: outcome of the stage's thread
    arrival,     \* per request: stages in the order gather saw them complete
    gathered,    \* per request: what asyncio.gather handed back
    resp,        \* per request: the responses sent to the caller
    call,        \* the last direct call of a stage adapter and its outcome
    csv,         \* fraud_network_50000.csv: the rows of the record store
    cache,       \* graph_cache.pkl
    G,           \* the graph in service, per process
    builtFrom,   \* per process: the rows the graph in service was built from
    proc,        \* per process: not started, serving, or failed at start-up
    built,       \* the graph that build_graph built most recently, anywhere
    decisions,   \* admin_decisions.json
    handler      \* per admin request: position and locals of its view function

vars == <<pc, doc, nlp_result, features, done, arrival, gathered, resp,
          call, csv, cache, G, builtFrom, proc, built, decisions, handler>>

pipeVars == <<pc, doc, nlp_result, features, done, arrival, gathered, resp>>
graphVars == <<csv, cache, G, builtFrom, proc, built>>
adminVars == <<decisions, handler>>

(***************************************************************************)
(* Python values                                                           *)
(***************************************************************************)
PyStr(s) == [t |-> "str", n |-> 0, s |-> s]
PyInt(n) == [t |-> "int", n |-> n, s |-> ""]
PyFloat(n) == [t |-> "float", n |-> n, s |-> ""]
PyNaN == [t |-> "float", n |-> 0, s |-> "nan"]
PyNone == [t |-> "NoneType", n |-> 0, s |-> ""]
PyBool(b) == [t |-> "bool", n |-> IF b THEN 1 ELSE 0, s |-> ""]
PyList(items) == [t |-> "list", items |-> items]
\* a numpy.float64 computed from x
NpFloat(x) == [t |-> "np.float64", of |-> x]
\* the Python float of the same value
FloatOf(x) == [t |-> "float", of |-> x]
\* the value of a key a dict does not hold
Absent == [t |-> "absent", n |-> 0, s |-> ""]

\* isinstance(v, (int, float))
IsNumber(v) == v.t \in {"int", "float"}
\* isinstance(v, int)
IsInt(v) == v.t = "int"
\* v < 0 for a number; every comparison with NaN is False
LtZero(v) == v.s # "nan" /\ v.n < 0
\* str(v)
PyStrOf(v) ==
    CASE v.t = "str" -> v.s
      [] v.t = "NoneType" -> "None"
      [] v.t = "int" -> ToString(v.n)
      [] v.t = "float" -> IF v.s = "nan" THEN "nan" ELSE ToString(v.n) \o ".0"
      [] OTHER -> ""

FeatureKeys ==
    {"annual_income", "registrations_per_aadhaar", "bank_shared_count",
     "phone_shared_count", "aadhaar_like_id", "name", "household_id",
     "phone_number", "bank_account", "district", "beneficiary_id"}

EmptyDict == [k \in FeatureKeys |-> Absent]

\* data.get(key, default)
Get(data, key, default) == IF data[key] = Absent THEN default ELSE data[key]

\* what a piece of code did: returned a value, or raised an exception
Return(v) == [raised |-> FALSE, value |-> v]
Raise(msg) == [raised |-> TRUE, value |-> [error |-> PyStr(msg)]]

\* what the trained model does on one call
ModelBehaviours == {"negative", "positive", "raise"}

(***************************************************************************)
(* Anomaly_Detection/backend.py                                            *)
(***************************************************************************)
\* the body of the try block of predict_anomaly
predict_anomaly_try(data, m) ==
    IF data = PyNone THEN Raise("'NoneType' object has no attribute 'get'")
    ELSE
    LET annual_income == Get(data, "annual_income", PyInt(50000))
        registrations_per_aadhaar == Get(data, "registrations_per_aadhaar", PyInt(1))
        bank_shared_count == Get(data, "bank_shared_count", PyInt(1))
        phone_shared_count == Get(data, "phone_shared_count", PyInt(1))
        model_input == <<annual_income, registrations_per_aadhaar,
                         bank_shared_count, phone_shared_count>>
    IN  IF ~IsNumber(annual_income) \/ LtZero(annual_income)
        THEN Return([error |-> PyStr("Invalid annual_income")])
        ELSE IF ~IsInt(registrations_per_aadhaar)
                \/ ~(1 <= registrations_per_aadhaar.n /\ registrations_per_aadhaar.n <= 10)
        THEN Return([error |-> PyStr("Invalid registrations_per_aadhaar (1-10)")])
        ELSE IF ~IsInt(bank_shared_count)
                \/ ~(1 <= bank_shared_count.n /\ bank_shared_count.n <= 15)
        THEN Return([error |-> PyStr("Invalid bank_shared_count (1-15)")])
        ELSE IF ~IsInt(phone_shared_count)
                \/ ~(1 <= phone_shared_count.n /\ phone_shared_count.n <= 15)
        THEN Return([error |-> PyStr("Invalid phone_shared_count (1-15)")])
        ELSE IF m = "raise" THEN Raise("model failure")
        ELSE IF m = "positive"
        THEN Return([prediction |-> PyStr("High Fraud Risk Detected"),
                     anomaly_score |-> NpFloat(model_input),
                     details |-> PyList(<<"Possible reasons:">>)])
        ELSE Return([prediction |-> PyStr("Beneficiary Appears Normal"),
                     anomaly_score |-> NpFloat(model_input),
                     details |-> PyList(<<"No strong anomaly patterns detected">>)])

\* predict_anomaly without its except clause
predict_anomaly_nocatch(data, m) == predict_anomaly_try(data, m)

\* predict_anomaly: the try block, and except Exception -> {'error': str(e)}
predict_anomaly(data, m) ==
    LET o == predict_anomaly_try(data, m)
    IN  IF o.raised THEN Return([error |-> o.value.error]) ELSE o

(***************************************************************************)
(* Duplicate_Detection/backend.py                                          *)
(***************************************************************************)
\* duplicate_detection_50000_v4.csv, columns already cast with astype(str)
DupDf ==
    << [aadhaar_like_id |-> "A1", phone_number |-> "P1", bank_account |-> "K1", household_id |-> "H1"],
       [aadhaar_like_id |-> "A1", phone_number |-> "P2", bank_account |-> "K1", household_id |-> "H2"],
       [aadhaar_like_id |-> "A3", phone_number |-> "P1", bank_account |-> "K3", household_id |-> "H1"] >>

\* df[df[col].astype(str) == s].shape[0]
DupCount(col, s) == Cardinality({i \in DOMAIN DupDf : DupDf[i][col] = s})

\* the body of the try block of predict_duplicate
predict_duplicate_try(data, m) ==
    IF data = PyNone THEN Raise("'NoneType' object has no attribute 'get'")
    ELSE
    LET aadhaar == Get(data, "aadhaar_like_id", PyStr(""))
        name == Get(data, "name", PyStr(""))
        household == Get(data, "household_id", PyStr(""))
        phone == Get(data, "phone_number", PyStr(""))
        bank == Get(data, "bank_account", PyStr(""))
        district == Get(data, "district", PyStr("District_1"))
        aadhaar_str == PyStrOf(aadhaar)
        phone_str == PyStrOf(phone)
        bank_str == PyStrOf(bank)
        household_str == PyStrOf(household)
        input_df == [aadhaar_like_id |-> aadhaar_str,
                     name |-> PyStrOf(name),
                     household_id |-> household_str,
                     phone_number |-> phone_str,
                     bank_account |-> bank_str,
                     district |-> PyStrOf(district),
                     aadhaar_count |-> DupCount("aadhaar_like_id", aadhaar_str),
                     phone_count |-> DupCount("phone_number", phone_str),
                     bank_count |-> DupCount("bank_account", bank_str),
                     household_size |-> DupCount("household_id", household_str)]
    IN  IF aadhaar_str = "" THEN Return([error |-> PyStr("Invalid aadhaar_like_id")])
        ELSE IF phone_str = "" THEN Return([error |-> PyStr("Invalid phone_number")])
        ELSE IF bank_str = "" THEN Return([error |-> PyStr("Invalid bank_account")])
        ELSE IF household_str = "" THEN Return([error |-> PyStr("Invalid household_id")])
        ELSE IF m = "raise" THEN Raise("model failure")
        ELSE IF m = "positive"
        THEN Return([prediction |-> PyStr("Duplicate Detected"),
                     duplicate_risk |-> NpFloat(input_df),
                     details |-> PyList(<<"Possible Reasons">>)])
        ELSE Return([prediction |-> PyStr("Appears Genuine"),
                     confidence_genuine |-> NpFloat(input_df)])

\* predict_duplicate without its except clause
predict_duplicate_nocatch(data, m) == predict_duplicate_try(data, m)

\* predict_duplicate: the try block, and except Exception -> {'error': str(e)}
predict_duplicate(data, m) ==
    LET o == predict_duplicate_try(data, m)
    IN  IF o.raised THEN Return([error |-> o.value.error]) ELSE o

(***************************************************************************)
(* Fraud_Network_Analysis: the record store, build_graph and the cache     *)
(***************************************************************************)
\* most rows the record store holds
MaxRecords == 3
\* df = load_data().head(1000), scaled to the size of the model
HeadN == 2

\* an empty CSV field, which pandas reads as NaN
NaN == "NaN"
LinkColumns == <<"phone_number", "bank_account", "agent_id", "aadhaar_like_id">>
ColumnValues ==
    [phone_number |-> {NaN, "p1", "p2"}, bank_account |-> {NaN, "k1"},
     agent_id |-> {NaN, "a1"}, aadhaar_like_id |-> {NaN, "d1"}]

BenId(i) == "BEN000" \o ToString(i)

\* the rows the model lets record i be: keyed BenId(i), with at most two
\* linking attributes filled in, and the second phone number on its own
RowChoices(i) ==
    {row \in [beneficiary_id : {BenId(i)},
              phone_number : ColumnValues.phone_number,
              bank_account : ColumnValues.bank_account,
              agent_id : ColumnValues.agent_id,
              aadhaar_like_id : ColumnValues.aadhaar_like_id] :
        LET filled == {c \in DOMAIN ColumnValues : row[c] # NaN}
        IN  Cardinality(filled) <= (IF row.phone_number = "p2" THEN 1 ELSE 2)}

\* the rows a CSV file of n records may hold
RECURSIVE RowsOf(_)
RowsOf(n) ==
    IF n = 0 THEN {<<>>}
    ELSE {Append(rows, row) : rows \in RowsOf(n - 1), row \in RowChoices(n)}

\* data.head(n)
HeadRows(data, n) == SubSeq(data, 1, IF Len(data) < n THEN Len(data) ELSE n)

\* nx.Graph(): a node set and, for every edge, both adjacency entries
EmptyGraph == [nodes |-> {}, edges |-> {}]
NoGraph == [nodes |-> {"<unset>"}, edges |-> {}]

\* G.add_node(n)
add_node(g, n) == [g EXCEPT !.nodes = @ \cup {n}]

\* G.add_edge(u, v) that fills one adjacency entry only
add_edge_directed(g, u, v) ==
    [nodes |-> g.nodes \cup {u, v}, edges |-> g.edges \cup {<<u, v>>}]

\* G.add_edge(u, v): adds missing nodes, and sets adj[u][v] and adj[v][u]
add_edge(g, u, v) ==
    [nodes |-> g.nodes \cup {u, v}, edges |-> g.edges \cup {<<u, v>>, <<v, u>>}]

\* the keys of data.groupby(col) when NaN keys are kept (dropna=False)
GroupKeysKeepNaN(data, col) == {data[i][col] : i \in DOMAIN data}

\* the keys of data.groupby(col): NaN keys are dropped
GroupKeys(data, col) == {data[i][col] : i \in DOMAIN data} \ {NaN}

\* data.groupby(col)["beneficiary_id"].apply(list), for one key: ids in row order
RECURSIVE GroupList(_, _, _, _)
GroupList(data, col, key, i) ==
    IF i > Len(data) THEN <<>>
    ELSE (IF data[i][col] = key THEN <<data[i].beneficiary_id>> ELSE <<>>)
         \o GroupList(data, col, key, i + 1)

\* the pair loop, were it to join each member to the next one only
RECURSIVE AddPairsAdjacent(_, _, _, _)
AddPairsAdjacent(g, group, i, j) ==
    IF i >= Len(group) THEN g
    ELSE AddPairsAdjacent(add_edge(g, group[i], group[i + 1]), group, i + 1, i + 2)

\* for i in range(len(group)): for j in range(i + 1, len(group)): G.add_edge(..)
RECURSIVE AddPairs(_, _, _, _)
AddPairs(g, group, i, j) ==
    IF i > Len(group) THEN g
    ELSE IF j > Len(group) THEN AddPairs(g, group, i + 1, i + 2)
    ELSE AddPairs(add_edge(g, group[i], group[j]), group, i, j + 1)

\* add_edges(col): for group in grouped: if len(group) > 1: add every pair
RECURSIVE AddGroups(_, _, _, _)
AddGroups(g, data, col, keys) ==
    IF keys = {} THEN g
    ELSE LET key == CHOOSE k \in keys : TRUE
             group == GroupList(data, col, key, 1)
             g2 == IF Len(group) > 1 THEN AddPairs(g, group, 1, 2) ELSE g
         IN  AddGroups(g2, data, col, keys \ {key})

add_edges(g, data, col) == AddGroups(g, data, col, GroupKeys(data, col))

\* for _, row in data.iterrows(): G.add_node(row["beneficiary_id"])
RECURSIVE AddNodes(_, _, _)
AddNodes(g, data, i) ==
    IF i > Len(data) THEN g
    ELSE AddNodes(add_node(g, data[i].beneficiary_id), data, i + 1)

\* for column in [...]: add_edges(column)
RECURSIVE AddColumns(_, _, _)
AddColumns(g, data, c) ==
    IF c > Len(LinkColumns) THEN g
    ELSE AddColumns(add_edges(g, data, LinkColumns[c]), data, c + 1)

\* build_graph of build_cache.py, and the else branch of the backend's
BuildGraph(data) == AddColumns(AddNodes(EmptyGraph, data, 1), data, 1)

\* graph_cache.pkl: missing, or the pickled graph (and the rows it came from)
NoCache == [exists |-> FALSE, corrupt |-> FALSE, graph |-> NoGraph, from |-> <<>>]
\* a dump that keeps the nodes of the graph and drops its edges
CacheOfNodesOnly(g, rows) ==
    [exists |-> TRUE, corrupt |-> FALSE, graph |-> [g EXCEPT !.edges = {}],
     from |-> rows]
\* joblib.dump(G, cache_file): the file holds the pickled graph
CacheOf(g, rows) == [exists |-> TRUE, corrupt |-> FALSE, graph |-> g, from |-> rows]
\* a cache file that is there and that joblib.load cannot read
CorruptCacheOf(file) == [file EXCEPT !.corrupt = TRUE, !.graph = NoGraph, !.from = <<>>]

\* build_graph(data), were it to compare the cached graph with the records it
\* is given and to build and store anew when they differ
build_graph_invalidating(data, file) ==
    IF file.exists /\ ~file.corrupt /\ file.graph = BuildGraph(data)
    THEN [raised |-> FALSE, graph |-> file.graph, from |-> file.from, cache |-> file]
    ELSE LET g == BuildGraph(data)
         IN  [raised |-> FALSE, graph |-> g, from |-> data, cache |-> CacheOf(g, data)]

\* build_graph(data) of the backend: [graph, from, cache] after the call, or
\* raised when joblib.load (line 28) fails on the file it found
build_graph(data, file) ==
    IF file.exists
    THEN IF file.corrupt
         THEN [raised |-> TRUE, graph |-> NoGraph, from |-> <<>>, cache |-> file]
         ELSE [raised |-> FALSE, graph |-> file.graph, from |-> file.from, cache |-> file]
    ELSE LET g == BuildGraph(data)
         IN  [raised |-> FALSE, graph |-> g, from |-> data, cache |-> CacheOf(g, data)]

(***************************************************************************)
(* Fraud network stage                                                     *)
(***************************************************************************)
Backend == "backend"
Dashboard == "dashboard"
Processes == {Backend, Dashboard}

\* df["beneficiary_id"].values
IdsOf(data) == {data[i].beneficiary_id : i \in DOMAIN data}

\* one component of nx.connected_components(G): breadth-first from a seed
RECURSIVE Bfs(_, _, _)
Bfs(g, seen, frontier) ==
    IF frontier = {} THEN seen
    ELSE LET next == {v \in g.nodes : \E u \in frontier : <<u, v>> \in g.edges} \ seen
         IN  Bfs(g, seen \cup next, next)

connected_components(g) == {Bfs(g, {n}, {n}) : n \in g.nodes}

\* fraud rings are components of at least this many nodes
RingThreshold == 5

\* the ring flag, were the test component_size > 5
ring_detection_strict(g, selected_id) ==
    LET found == {c \in connected_components(g) : selected_id \in c}
    IN  IF found = {}
        THEN [component_size |-> 0, fraud_ring |-> FALSE]
        ELSE LET component == CHOOSE c \in found : TRUE
             IN  [component_size |-> Cardinality(component),
                  fraud_ring |-> Cardinality(component) > RingThreshold]

\* predict, lines 81-88: size of the component of selected_id, and the ring flag
ring_detection(g, selected_id) ==
    LET found == {c \in connected_components(g) : selected_id \in c}
    IN  IF found = {}
        THEN [component_size |-> 0, fraud_ring |-> FALSE]
        ELSE LET component == CHOOSE c \in found : TRUE
             IN  [component_size |-> Cardinality(component),
                  fraud_ring |-> Cardinality(component) >= RingThreshold]

\* the components get_stats counts as fraud rings, were the test len(c) <= t
fraud_rings_at_most(g, t) == {c \in connected_components(g) : Cardinality(c) <= t}

\* the components of at least t nodes: len(c) >= t of get_stats and predict
fraud_rings_at(g, t) == {c \in connected_components(g) : Cardinality(c) >= t}

\* G.degree(n): the number of neighbours of n
degree(g, n) == Cardinality({v \in g.nodes : <<n, v>> \in g.edges})

\* an exact fraction, for the floats the centrality code compares
Frac(num, den) == [num |-> num, den |-> den]
FracGeq(a, b) == a.num * b.den >= b.num * a.den

\* nx.degree_centrality(G): {n: 1} when len(G) <= 1, else degree * 1/(len(G)-1)
degree_centrality(g) ==
    [n \in g.nodes |->
        IF Cardinality(g.nodes) <= 1 THEN Frac(1, 1)
        ELSE Frac(degree(g, n), Cardinality(g.nodes) - 1)]

\* the k-th value (from 0) of the scores in ascending order
SortedAt(dc, k) ==
    CHOOSE v \in {dc[n] : n \in DOMAIN dc} :
        /\ Cardinality({n \in DOMAIN dc : ~FracGeq(dc[n], v)}) <= k
        /\ k < Cardinality({n \in DOMAIN dc : FracGeq(v, dc[n])})

\* the position of an id in the order Python compares ids by
IdIndex(id) == CHOOSE i \in 1..9 : BenId(i) = id

\* a threshold read at the greatest key, as max(degree_centrality) gives it
quantile_95_maxkey(dc) ==
    dc[CHOOSE n \in DOMAIN dc : \A o \in DOMAIN dc : IdIndex(o) <= IdIndex(n)]

\* pd.Series(values).quantile(0.95), linear interpolation: position
\* 0.95 * (len - 1) between the two neighbouring sorted values
quantile_95(dc) ==
    LET len == Cardinality(DOMAIN dc)
        pos == 19 * (len - 1)
        lo == pos \div 20
        hi == IF lo + 1 < len THEN lo + 1 ELSE lo
        vlo == SortedAt(dc, lo)
        vhi == SortedAt(dc, hi)
    IN  Frac(20 * vlo.num + (pos % 20) * (vhi.num - vlo.num), 20 * vlo.den)

\* the hub flag, were the test centrality_score > threshold
master_agent_detection_strict(g, selected_id) ==
    IF selected_id \notin g.nodes
    THEN [centrality_score |-> Frac(0, 1), is_master_agent |-> FALSE]
    ELSE LET dc == degree_centrality(g)
         IN  [centrality_score |-> dc[selected_id],
              is_master_agent |-> ~FracGeq(quantile_95(dc), dc[selected_id])]

\* the hub flag, were the threshold kept from the graph of the cache file
\* instead of being computed from the graph at hand
master_agent_detection_stale(g, selected_id) ==
    IF selected_id \notin g.nodes
    THEN [centrality_score |-> Frac(0, 1), is_master_agent |-> FALSE]
    ELSE LET dc == degree_centrality(g)
             kept == IF cache.exists /\ ~cache.corrupt
                     THEN degree_centrality(cache.graph) ELSE dc
         IN  [centrality_score |-> dc[selected_id],
              is_master_agent |-> FracGeq(dc[selected_id], quantile_95(kept))]

\* predict, lines 90-98: the centrality of selected_id and the hub flag
master_agent_detection(g, selected_id) ==
    IF selected_id \notin g.nodes
    THEN [centrality_score |-> Frac(0, 1), is_master_agent |-> FALSE]
    ELSE LET dc == degree_centrality(g)
         IN  [centrality_score |-> dc[selected_id],
              is_master_agent |-> FracGeq(dc[selected_id], quantile_95(dc))]

\* round(x, 4) of a fraction, in ten-thousandths (to nearest)
Round4(x) == (20000 * x.num + x.den) \div (2 * x.den)
\* a float that was rounded to four decimals, held in ten-thousandths
PyFloat4(k) == [t |-> "float", e4 |-> k]

\* a (content, status) tuple, as a Flask view returns it
PyTuple(content, status) == [tuple_content |-> content, tuple_status |-> status]
\* isinstance(x, tuple)
IsTuple(x) == "tuple_status" \in DOMAIN x
\* isinstance(x, dict): a record that is neither a tuple nor a tagged value
IsDict(x) == ~IsTuple(x) /\ "t" \notin DOMAIN x

Shaped(shape, content, status) ==
    IF shape = "tuple" THEN PyTuple(content, status) ELSE content

NotInDataset == PyStr("Beneficiary not in dataset")

\* predict_fraud(data) of Fraud_Network_Analysis/backend.py, which main.py
\* calls with {'features': {'Beneficiary ID': id}}: a success dict, or a
\* failure as a plain dict or as a (content, status) tuple; never raises
predict_fraud(data, m, shape, df, g) ==
    LET selected_id == data.features["Beneficiary ID"]
        ring == ring_detection(g, selected_id.s)
    IN  IF selected_id.s \notin IdsOf(df)
        THEN Return(Shaped(shape, [error |-> NotInDataset], 404))
        ELSE IF m = "raise"
        THEN Return(Shaped(shape, [error |-> PyStr("model failure")], 500))
        ELSE Return(Shaped(shape,
                 [beneficiary_id |-> selected_id,
                  ml_prediction |-> PyStr(IF m = "positive" THEN "Fraud Ring Suspected"
                                                           ELSE "Appears Normal"),
                  connected_component_size |-> PyInt(ring.component_size),
                  fraud_ring_detected |-> PyBool(ring.fraud_ring)], 200))

\* the graph after predict has used it, were the lookup to cut the queried
\* node out of G in place
graph_after_predict_isolating(g, selected_id) ==
    [g EXCEPT !.edges = {e \in @ : e[1] # selected_id /\ e[2] # selected_id}]

\* the graph after predict has used it: lines 81-98 only read G
graph_after_predict(g, selected_id) == g

\* predict of the fraud-network backend, lines 56-122: [status, content];
\* m = "raise" is an exception anywhere inside the try
predict(selected_id, m, df, g) ==
    IF selected_id = PyNone \/ selected_id.s \notin IdsOf(df)
    THEN [status |-> 400, content |-> [error |-> PyStr("Invalid beneficiary_id")]]
    ELSE IF m = "raise"
    THEN [status |-> 500, content |-> [error |-> PyStr("model failure")]]
    ELSE LET ring == ring_detection(g, selected_id.s)
             hub == master_agent_detection(g, selected_id.s)
         IN  [status |-> 200,
              content |->
                [beneficiary_id |-> selected_id,
                 ml_prediction |-> PyStr(IF m = "positive" THEN "Fraud Ring Suspected"
                                                          ELSE "Appears Normal"),
                 connected_component_size |-> PyInt(ring.component_size),
                 fraud_ring_detected |-> PyBool(ring.fraud_ring),
                 degree_centrality |-> PyFloat4(Round4(hub.centrality_score)),
                 master_agent_detected |-> PyBool(hub.is_master_agent)]]

\* get_stats of the dashboard, lines 43-44
get_stats(fraud_df, g) ==
    [total_beneficiaries |-> PyInt(Len(fraud_df)),
     fraud_rings |-> PyInt(Cardinality(fraud_rings_at(g, RingThreshold)))]

\* get_fraud_network of the dashboard: how many components of each size
get_fraud_network(g) ==
    LET sizes == {Cardinality(c) : c \in connected_components(g)}
    IN  [k \in sizes |->
            PyInt(Cardinality({c \in connected_components(g) : Cardinality(c) = k}))]

(***************************************************************************)
(* NLP_Extractor: extract_nlp, as pipeline_basic consumes it               *)
(***************************************************************************)
RegexFields ==
    {"Annual Income", "Aadhaar ID", "Phone Number", "Bank Account",
     "Beneficiary ID", "Household ID"}

\* the matches a document may hold for each field (first match only)
RegexMatches ==
    ("Annual Income" :> {"Rs.60000", "rs 70000"})
    @@ ("Aadhaar ID" :> {"A1"})
    @@ ("Phone Number" :> {"P1"})
    @@ ("Bank Account" :> {"K1"})
    @@ ("Beneficiary ID" :> {"BEN0002", "BEN0009"})
    @@ ("Household ID" :> {"H1"})

NoMatch == "<no match>"
MatchOrNone(k) == RegexMatches[k] \cup {NoMatch}

\* regex_results: one list of matches for every field that matched
MkRegex(c) == [k \in {x \in RegexFields : c[x] # NoMatch} |-> PyList(<<c[k]>>)]

RegexResults ==
    {MkRegex(("Annual Income" :> inc) @@ ("Aadhaar ID" :> aad)
             @@ ("Phone Number" :> ph) @@ ("Bank Account" :> bk)
             @@ ("Beneficiary ID" :> ben) @@ ("Household ID" :> hh)) :
        inc \in MatchOrNone("Annual Income"), aad \in MatchOrNone("Aadhaar ID"),
        ph \in MatchOrNone("Phone Number"), bk \in MatchOrNone("Bank Account"),
        ben \in MatchOrNone("Beneficiary ID"), hh \in MatchOrNone("Household ID")}

BaseRegex ==
    [k \in RegexFields |->
        PyList(<<IF k = "Annual Income" THEN "Rs.60000"
                 ELSE IF k = "Beneficiary ID" THEN "BEN0002"
                 ELSE CHOOSE v \in RegexMatches[k] : TRUE>>)]

DupFields == {"Aadhaar ID", "Phone Number", "Bank Account", "Household ID"}

\* the uploaded documents: readable PDFs, among them one in which no field is
\* found, one with no text, one that cannot be opened
PdfDocs ==
    {[kind |-> "pdf", regex |-> f, names |-> nm] :
        f \in RegexResults, nm \in {<<>>, <<"N1">>}}

Docs ==
    {d \in PdfDocs :
        /\ Cardinality(DupFields \ DOMAIN d.regex) <= 1
        /\ \/ /\ "Annual Income" \in DOMAIN d.regex
              /\ d.regex["Annual Income"] = BaseRegex["Annual Income"]
              /\ d.names = <<"N1">>
           \/ /\ \A k \in RegexFields \ {"Annual Income"} :
                    k \in DOMAIN d.regex /\ d.regex[k] = BaseRegex[k]}
    \cup {[kind |-> "pdf", regex |-> <<>>, names |-> <<>>],
          [kind |-> "unreadable", regex |-> <<>>, names |-> <<>>],
          [kind |-> "broken", regex |-> <<>>, names |-> <<>>]}

\* extract_nlp(file): the extraction dict, an error dict, or an exception
extract_nlp(d) ==
    IF d.kind = "broken" THEN Raise("Error extracting text from PDF")
    ELSE IF d.kind = "unreadable"
    THEN Return([error |-> PyStr("Could not extract text from the uploaded file")])
    ELSE Return([regex_results |-> d.regex,
                 nlp_results |-> [Name |-> PyList(d.names)],
                 raw_text |-> PyStr("text")])

(***************************************************************************)
(* main.py: pipeline_basic                                                 *)
(***************************************************************************)
\* re.sub(r'[...,Rs\.\s]', '', income_str) and float(clean_income)
CleanIncome(income_str) ==
    CASE income_str = "Rs.60000" -> "60000"
      [] income_str = "rs 70000" -> "r70000"
      [] OTHER -> income_str
ParseFloat(str) ==
    CASE str = "60000" -> Return(PyFloat(60000))
      [] OTHER -> Raise("could not convert string to float")

\* regex[field][0] when the field matched, else the key stays out of features
FirstMatch(regex, field) ==
    IF field \in DOMAIN regex THEN PyStr(regex[field].items[1]) ELSE Absent

\* lines 64-101: the fields taken from the extraction, and the fixed ones
extract_fields(nlp) ==
    LET regex == nlp.regex_results
        nlp_ents == nlp.nlp_results
        parsed == IF "Annual Income" \in DOMAIN regex
                  THEN ParseFloat(CleanIncome(regex["Annual Income"].items[1]))
                  ELSE Raise("absent")
        ben == FirstMatch(regex, "Beneficiary ID")
    IN  [EmptyDict EXCEPT
            !["annual_income"] = IF "Annual Income" \in DOMAIN regex /\ ~parsed.raised
                                 THEN parsed.value ELSE PyInt(50000),
            !["aadhaar_like_id"] = FirstMatch(regex, "Aadhaar ID"),
            !["phone_number"] = FirstMatch(regex, "Phone Number"),
            !["bank_account"] = FirstMatch(regex, "Bank Account"),
            !["household_id"] = FirstMatch(regex, "Household ID"),
            !["name"] = IF "Name" \in DOMAIN nlp_ents /\ Len(nlp_ents.Name.items) > 0
                        THEN PyStr(nlp_ents.Name.items[1]) ELSE PyStr(""),
            !["registrations_per_aadhaar"] = PyInt(1),
            !["bank_shared_count"] = PyInt(1),
            !["phone_shared_count"] = PyInt(1),
            !["district"] = PyStr("District_1"),
            !["beneficiary_id"] = ben]

\* the features dict, were lines 103-105 left out
build_features_no_default(nlp) == extract_fields(nlp)

\* lines 64-105: the features dict, with the default beneficiary_id
build_features(nlp) ==
    [extract_fields(nlp) EXCEPT
        !["beneficiary_id"] = IF @ = Absent THEN PyStr("BEN0001") ELSE @]

Stages == {"anomaly", "duplicate", "fraud"}
TaskOrder == <<"anomaly", "duplicate", "fraud">>
NotStarted == [t |-> "not started"]
Pending == [t |-> "pending"]
IsOutcome(o) == "raised" \in DOMAIN o
\* what a finished thread returned
ValueOf(o) == IF IsOutcome(o) THEN o.value ELSE o

\* the thread of one stage, lines 108-110
RunStage(s, feats, m, shape, df, g) ==
    CASE s = "anomaly" -> predict_anomaly(feats, m)
      [] s = "duplicate" -> predict_duplicate(feats, m)
      [] s = "fraud" ->
            predict_fraud([features |-> [k \in {"Beneficiary ID"} |-> feats.beneficiary_id]],
                          m, shape, df, g)

\* asyncio.gather that returns as soon as one task is done
GatherReadyFirst(d) == \E s \in Stages : IsOutcome(d[s])

\* await asyncio.gather(...): resumes when every task is done, or as soon as
\* one task has raised
GatherReady(d) ==
    \/ \A s \in Stages : IsOutcome(d[s])
    \/ \E s \in Stages : IsOutcome(d[s]) /\ d[s].raised

\* results handed back in order of completion
GatherResultByArrival(d, arr) ==
    [i \in 1..3 |-> IF i <= Len(arr) THEN ValueOf(d[arr[i]]) ELSE Pending]

\* asyncio.gather hands the results back in the order of its arguments
GatherResult(d, arr) == [i \in 1..3 |-> ValueOf(d[TaskOrder[i]])]

\* JSONResponse(status_code, content)
Response(status, content) == [status |-> status, content |-> content]
Continue(v) == [abort |-> FALSE, value |-> v]
Abort(status, content) == [abort |-> TRUE, value |-> Response(status, content)]

HasError(x) == IsDict(x) /\ "error" \in DOMAIN x

\* normalization that lets a failure dict through as a stage entry
NormalizeScoreTolerant(result) ==
    IF IsTuple(result) THEN Continue(result.tuple_content) ELSE Continue(result)

\* lines 114-121 and 123-130: only successful results go through
NormalizeScore(result) ==
    IF IsTuple(result)
    THEN IF result.tuple_status # 200
         THEN Abort(result.tuple_status, result.tuple_content)
         ELSE Continue(result.tuple_content)
    ELSE IF HasError(result) THEN Abort(400, result)
    ELSE Continue(result)

\* lines 137-147 and 155-165
NeutralDefault(feats) ==
    [beneficiary_id |-> feats.beneficiary_id,
     ml_prediction |-> PyStr("Beneficiary Not In Network Dataset"),
     fraud_probability |-> PyFloat(0),
     normal_probability |-> PyFloat(100),
     connected_component_size |-> PyInt(0),
     fraud_ring_detected |-> PyBool(FALSE),
     degree_centrality |-> PyFloat(0),
     master_agent_detected |-> PyBool(FALSE),
     beneficiary_details |-> <<>>]

\* fraud normalization whose special case covers the plain dict only
NormalizeFraudDictOnly(result, feats) ==
    IF IsTuple(result)
    THEN IF result.tuple_status # 200
         THEN Abort(result.tuple_status, result.tuple_content)
         ELSE Continue(result.tuple_content)
    ELSE IF HasError(result)
    THEN IF result.error = NotInDataset THEN Continue(NeutralDefault(feats))
         ELSE Abort(400, result)
    ELSE Continue(result)

\* lines 132-167
NormalizeFraud(result, feats) ==
    IF IsTuple(result)
    THEN IF HasError(result.tuple_content) /\ result.tuple_content.error = NotInDataset
         THEN Continue(NeutralDefault(feats))
         ELSE IF result.tuple_status # 200
         THEN Abort(result.tuple_status, result.tuple_content)
         ELSE Continue(result.tuple_content)
    ELSE IF HasError(result)
    THEN IF result.error = NotInDataset THEN Continue(NeutralDefault(feats))
         ELSE Abort(400, result)
    ELSE Continue(result)

IsLeaf(obj) == "t" \in DOMAIN obj

\* convert_to_serializable, lines 17-29
RECURSIVE convert_to_serializable(_)
convert_to_serializable(obj) ==
    IF IsLeaf(obj)
    THEN IF obj.t = "np.float64" THEN FloatOf(obj.of) ELSE obj
    ELSE [key \in DOMAIN obj |-> convert_to_serializable(obj[key])]

\* the result dict without its nlp_extraction entry
CompileNoNlp(nlp, anomaly, duplicate, fraud) ==
    [anomaly_detection |-> anomaly,
     duplicate_detection |-> duplicate,
     fraud_network_analysis |-> fraud]

\* lines 170-175
Compile(nlp, anomaly, duplicate, fraud) ==
    [nlp_extraction |-> nlp,
     anomaly_detection |-> anomaly,
     duplicate_detection |-> duplicate,
     fraud_network_analysis |-> fraud]

\* aggregation that looks at the fraud result first and the anomaly result last
AggregateReversed(nlp, feats, results) ==
    LET a == NormalizeScore(results[1])
        d == NormalizeScore(results[2])
        f == NormalizeFraud(results[3], feats)
    IN  IF f.abort THEN f
        ELSE IF d.abort THEN d
        ELSE IF a.abort THEN a
        ELSE Continue(Response(200,
                convert_to_serializable(Compile(nlp, a.value, d.value, f.value))))

\* aggregation that answers a fraud-stage failure with the entries it has
AggregatePartial(nlp, feats, results) ==
    LET a == NormalizeScore(results[1])
        d == NormalizeScore(results[2])
        f == NormalizeFraud(results[3], feats)
    IN  IF a.abort THEN a
        ELSE IF d.abort THEN d
        ELSE IF f.abort
        THEN Continue(Response(200, [nlp_extraction |-> nlp,
                                     anomaly_detection |-> a.value,
                                     duplicate_detection |-> d.value]))
        ELSE Continue(Response(200,
                convert_to_serializable(Compile(nlp, a.value, d.value, f.value))))

\* lines 114-179, from the gathered results to the response
Aggregate(nlp, feats, results) ==
    LET a == NormalizeScore(results[1])
        d == NormalizeScore(results[2])
        f == NormalizeFraud(results[3], feats)
    IN  IF a.abort THEN a
        ELSE IF d.abort THEN d
        ELSE IF f.abort THEN f
        ELSE Continue(Response(200,
                convert_to_serializable(Compile(nlp, a.value, d.value, f.value))))

(***************************************************************************)
(* The admin decision store                                                *)
(***************************************************************************)
\* admin_decisions.json: missing, or the dumped {'cases': .., 'audit': ..}
NoDecisions == [exists |-> FALSE, cases |-> <<>>, audit |-> <<>>]

\* load_decisions(): the parsed file, or an empty store when there is no file
load_decisions(file) ==
    IF file.exists THEN [cases |-> file.cases, audit |-> file.audit]
    ELSE [cases |-> <<>>, audit |-> <<>>]

\* save_decisions(data): the file after open(DATA_FILE, 'w') and json.dump
save_decisions(data) == [exists |-> TRUE, cases |-> data.cases, audit |-> data.audit]

\* the two cases init_cases seeds (lines 320-323); 'notes' is a key of a case
\* only once a decision has set it
DemoCases ==
    <<[id |-> "1", beneficiary_id |-> "BEN10458932", status |-> "pending",
       notes |-> Absent],
      [id |-> "2", beneficiary_id |-> "BEN20567890", status |-> "pending",
       notes |-> Absent]>>

\* audit_entry of submit_decision (lines 125-131), the timestamp left out
AuditEntry(case_id, decision, notes) ==
    [case_id |-> case_id, decision |-> decision, notes |-> notes,
     admin |-> "admin_user"]

\* for case in data['cases']: if case['id'] == case_id: set status, notes; break
RECURSIVE UpdateCase(_, _, _, _, _)
UpdateCase(cases, i, case_id, decision, notes) ==
    IF i > Len(cases) THEN cases
    ELSE IF cases[i].id = case_id
    THEN [cases EXCEPT ![i] = [@ EXCEPT !.status = decision, !.notes = notes]]
    ELSE UpdateCase(cases, i + 1, case_id, decision, notes)

\* submit_decision, lines 124-139: what it makes of the data it loaded
decide(data, case_id, decision, notes) ==
    [cases |-> UpdateCase(data.cases, 1, case_id, decision, notes),
     audit |-> Append(data.audit, AuditEntry(case_id, decision, notes))]

\* init_cases, lines 319-323: the demo cases, when the case list is empty
seed_cases(data) ==
    IF data.cases = <<>> THEN [data EXCEPT !.cases = DemoCases] ELSE data

(***************************************************************************)
(* The requests of /pipeline-basic                                         *)
(***************************************************************************)
\* most requests in flight at once
NumRequests == 2
Requests == 1..NumRequests

\* most /decide and /init-cases requests in flight at once
NumAdmin == 3
AdminRequests == 1..NumAdmin

\* the record store the pipeline's fraud stage runs on
DemoCsv ==
    [i \in 1..3 |->
        [beneficiary_id |-> BenId(i),
         phone_number |-> IF i <= 2 THEN "p1" ELSE NaN,
         bank_account |-> NaN, agent_id |-> NaN, aadhaar_like_id |-> NaN]]

NoCall == [fn |-> "none"]
NoResponse == <<>>

InitRequests ==
    /\ pc = [r \in Requests |-> "Idle"]
    /\ doc = [r \in Requests |-> [kind |-> "none"]]
    /\ nlp_result = [r \in Requests |-> <<>>]
    /\ features = [r \in Requests |-> EmptyDict]
    /\ done = [r \in Requests |-> [s \in Stages |-> NotStarted]]
    /\ arrival = [r \in Requests |-> <<>>]
    /\ gathered = [r \in Requests |-> <<>>]
    /\ resp = [r \in Requests |-> NoResponse]

\* no admin_decisions.json yet, and no admin request has arrived
InitAdmin ==
    /\ decisions = NoDecisions
    /\ handler = [a \in AdminRequests |->
                    [pc |-> "Idle", fn |-> "none", case_id |-> "", decision |-> "",
                     notes |-> PyStr(""), data |-> load_decisions(NoDecisions)]]

\* the backend has been imported: df loaded and G = build_graph(df)
InitServing ==
    LET df == HeadRows(DemoCsv, HeadN)
        b == build_graph(df, NoCache)
    IN  /\ csv = DemoCsv
        /\ cache = b.cache
        /\ G = [p \in Processes |-> IF p = Backend THEN b.graph ELSE NoGraph]
        /\ builtFrom = [p \in Processes |-> IF p = Backend THEN b.from ELSE <<>>]
        /\ proc = [p \in Processes |-> IF p = Backend THEN "serving" ELSE "down"]
        /\ built = b.graph

Init == InitRequests /\ InitServing /\ InitAdmin /\ call = NoCall

\* POST /pipeline-basic arrives; extract_nlp starts in a thread (line 60)
Receive(r, d) ==
    /\ pc[r] = "Idle"
    /\ pc' = [pc EXCEPT ![r] = "Received"]
    /\ doc' = [doc EXCEPT ![r] = d]
    /\ UNCHANGED <<nlp_result, features, done, arrival, gathered, resp, call, graphVars, adminVars>>

\* extract_nlp returns, were its exception to end the coroutine unanswered
NormalizeUncaught(r) ==
    /\ pc[r] = "Received"
    /\ LET o == extract_nlp(doc[r])
       IN  IF o.raised
           THEN /\ pc' = [pc EXCEPT ![r] = "AbortedHard"]
                /\ UNCHANGED <<nlp_result, features, resp>>
           ELSE IF "error" \in DOMAIN o.value
           THEN /\ resp' = [resp EXCEPT ![r] = Append(@, Response(400, o.value))]
                /\ pc' = [pc EXCEPT ![r] = "AbortedHard"]
                /\ nlp_result' = [nlp_result EXCEPT ![r] = o.value]
                /\ UNCHANGED features
           ELSE /\ nlp_result' = [nlp_result EXCEPT ![r] = o.value]
                /\ features' = [features EXCEPT ![r] = build_features(o.value)]
                /\ pc' = [pc EXCEPT ![r] = "FeaturesNormalized"]
                /\ UNCHANGED resp
    /\ UNCHANGED <<doc, done, arrival, gathered, call, graphVars, adminVars>>

\* extract_nlp returns: lines 61-105, or the except clause of line 181
Normalize(r) ==
    /\ pc[r] = "Received"
    /\ LET o == extract_nlp(doc[r])
       IN  IF o.raised
           THEN /\ resp' = [resp EXCEPT ![r] = Append(@, Response(500, o.value))]
                /\ pc' = [pc EXCEPT ![r] = "AbortedHard"]
                /\ UNCHANGED <<nlp_result, features>>
           ELSE IF "error" \in DOMAIN o.value
           THEN /\ resp' = [resp EXCEPT ![r] = Append(@, Response(400, o.value))]
                /\ pc' = [pc EXCEPT ![r] = "AbortedHard"]
                /\ nlp_result' = [nlp_result EXCEPT ![r] = o.value]
                /\ UNCHANGED features
           ELSE /\ nlp_result' = [nlp_result EXCEPT ![r] = o.value]
                /\ features' = [features EXCEPT ![r] = build_features(o.value)]
                /\ pc' = [pc EXCEPT ![r] = "FeaturesNormalized"]
                /\ UNCHANGED resp
    /\ UNCHANGED <<doc, done, arrival, gathered, call, graphVars, adminVars>>

\* lines 108-112: the three threads are started and gather is awaited
Dispatch(r) ==
    /\ pc[r] = "FeaturesNormalized"
    /\ done' = [done EXCEPT ![r] = [s \in Stages |-> Pending]]
    /\ pc' = [pc EXCEPT ![r] = "StagesDispatched"]
    /\ UNCHANGED <<doc, nlp_result, features, arrival, gathered, resp, call, graphVars, adminVars>>

\* the features dict every stage thread reads, were it a module-level global
\* that each request overwrites
StageInputGlobal(r) ==
    LET set == {q \in Requests : features[q] # EmptyDict}
    IN  features[CHOOSE q \in set : \A q2 \in set : q2 <= q]

\* lines 108-110: each thread is handed the features dict of its own call
StageInput(r) == features[r]

\* the thread of stage s returns; a thread runs on after its request is gone
StageComplete(r, s, m, shape) ==
    /\ done[r][s] = Pending
    /\ done' = [done EXCEPT ![r][s] =
                    RunStage(s, StageInput(r), m, shape, HeadRows(csv, HeadN), G[Backend])]
    /\ arrival' = IF pc[r] = "StagesDispatched"
                   THEN [arrival EXCEPT ![r] = Append(@, s)]
                   ELSE arrival
    /\ UNCHANGED <<pc, doc, nlp_result, features, gathered, resp, call, graphVars, adminVars>>

\* line 112: gather resumes pipeline_basic
Collect(r) ==
    /\ pc[r] = "StagesDispatched"
    /\ GatherReady(done[r])
    /\ IF \E s \in Stages : IsOutcome(done[r][s]) /\ done[r][s].raised
       THEN LET s == CHOOSE x \in Stages : IsOutcome(done[r][x]) /\ done[r][x].raised
            IN  /\ resp' = [resp EXCEPT ![r] = Append(@, Response(500, done[r][s].value))]
                /\ pc' = [pc EXCEPT ![r] = "AbortedHard"]
                /\ UNCHANGED gathered
       ELSE /\ gathered' = [gathered EXCEPT ![r] = GatherResult(done[r], arrival[r])]
            /\ pc' = [pc EXCEPT ![r] = "StagesCollected"]
            /\ UNCHANGED resp
    /\ UNCHANGED <<doc, nlp_result, features, done, arrival, call, graphVars, adminVars>>

\* lines 114-179: normalize, compile and answer
Respond(r) ==
    /\ pc[r] = "StagesCollected"
    /\ LET a == Aggregate(nlp_result[r], features[r], gathered[r])
       IN  /\ resp' = [resp EXCEPT ![r] = Append(@, a.value)]
           /\ pc' = [pc EXCEPT ![r] = IF a.abort THEN "AbortedHard" ELSE "Aggregated"]
    /\ UNCHANGED <<doc, nlp_result, features, done, arrival, gathered, call, graphVars, adminVars>>

\* the caller goes away while pipeline_basic is suspended at an await: the
\* CancelledError is no Exception, so line 181 does not catch it; the gather
\* is dropped with the coroutine, the threads run on
Cancel(r) ==
    /\ pc[r] \in {"Received", "StagesDispatched"}
    /\ pc' = [pc EXCEPT ![r] = "Cancelled"]
    /\ arrival' = [arrival EXCEPT ![r] = <<>>]
    /\ UNCHANGED <<doc, nlp_result, features, done, gathered, resp, call, graphVars, adminVars>>

Shapes == {"dict", "tuple"}

\* one request at a time, every document and every behaviour of the models
Next ==
    \/ \E d \in Docs : Receive(1, d)
    \/ Normalize(1)
    \/ Dispatch(1)
    \/ \E s \in Stages, m \in ModelBehaviours, shape \in Shapes : StageComplete(1, s, m, shape)
    \/ Collect(1)
    \/ Respond(1)
    \/ Cancel(1)

Spec == Init /\ [][Next]_vars

(***************************************************************************)
(* A request whose caller waits, with threads and event loop that run on   *)
(***************************************************************************)
LiveNext ==
    \/ \E d \in Docs : Receive(1, d)
    \/ Normalize(1)
    \/ Dispatch(1)
    \/ \E s \in Stages, m \in ModelBehaviours, shape \in Shapes : StageComplete(1, s, m, shape)
    \/ Collect(1)
    \/ Respond(1)

\* the extraction thread and every stage thread return, and the event loop
\* resumes the coroutine whenever it can go on
Fairness ==
    /\ WF_vars(Normalize(1))
    /\ WF_vars(Dispatch(1))
    /\ \A s \in Stages :
          WF_vars(\E m \in ModelBehaviours, shape \in Shapes : StageComplete(1, s, m, shape))
    /\ WF_vars(Collect(1))
    /\ WF_vars(Respond(1))

LiveSpec == Init /\ [][LiveNext]_vars /\ Fairness

(***************************************************************************)
(* Several requests in flight                                              *)
(***************************************************************************)
\* two documents that differ in every field a stage reads
ConcDocs ==
    {[kind |-> "pdf", regex |-> BaseRegex, names |-> <<"N1">>],
     [kind |-> "pdf",
      regex |-> [k \in RegexFields \ {"Annual Income"} |->
                    IF k = "Beneficiary ID" THEN PyList(<<"BEN0009">>) ELSE BaseRegex[k]],
      names |-> <<>>]}

ConcNext ==
    \/ \E r \in Requests, d \in ConcDocs : Receive(r, d)
    \/ \E r \in Requests : Normalize(r)
    \/ \E r \in Requests : Dispatch(r)
    \/ \E r \in Requests, s \in Stages : StageComplete(r, s, "negative", "dict")
    \/ \E r \in Requests : Collect(r)
    \/ \E r \in Requests : Respond(r)
    \/ \E r \in Requests : Cancel(r)

ConcSpec == Init /\ [][ConcNext]_vars

(***************************************************************************)
(* The stage adapters called directly, on every kind of input              *)
(***************************************************************************)
AnomalyInputs ==
    {PyNone} \cup
    {[EmptyDict EXCEPT !["annual_income"] = a, !["registrations_per_aadhaar"] = g,
                       !["bank_shared_count"] = b, !["phone_shared_count"] = ph] :
        a \in {Absent, PyInt(60000), PyInt(0 - 5), PyStr("60000"), PyNone, PyNaN},
        g \in {Absent, PyInt(1), PyInt(11), PyStr("1")},
        b \in {Absent, PyInt(15), PyInt(16)},
        ph \in {Absent, PyInt(0), PyFloat(1)}}

DuplicateInputs ==
    {PyNone} \cup
    {[EmptyDict EXCEPT !["aadhaar_like_id"] = a, !["household_id"] = h,
                       !["phone_number"] = ph, !["bank_account"] = b, !["name"] = nm] :
        a \in {Absent, PyStr(""), PyStr("A1"), PyNone, PyInt(1234)},
        h \in {Absent, PyStr("H1")},
        ph \in {Absent, PyStr("P1"), PyInt(9)},
        b \in {Absent, PyStr("K1")},
        nm \in {Absent, PyStr("N1")}}

CallAnomaly(data, m) ==
    /\ call = NoCall
    /\ call' = [fn |-> "predict_anomaly", data |-> data, m |-> m,
                out |-> predict_anomaly(data, m)]
    /\ UNCHANGED <<pipeVars, graphVars, adminVars>>

CallDuplicate(data, m) ==
    /\ call = NoCall
    /\ call' = [fn |-> "predict_duplicate", data |-> data, m |-> m,
                out |-> predict_duplicate(data, m)]
    /\ UNCHANGED <<pipeVars, graphVars, adminVars>>

AdapterNext ==
    \/ \E data \in AnomalyInputs, m \in ModelBehaviours : CallAnomaly(data, m)
    \/ \E data \in DuplicateInputs, m \in ModelBehaviours : CallDuplicate(data, m)

AdapterSpec == Init /\ [][AdapterNext]_vars

(***************************************************************************)
(* Building, caching and loading the graph                                 *)
(***************************************************************************)
GraphInit ==
    /\ InitRequests
    /\ call = NoCall
    /\ csv \in UNION {RowsOf(n) : n \in 1..MaxRecords}
    /\ cache = NoCache
    /\ G = [p \in Processes |-> NoGraph]
    /\ builtFrom = [p \in Processes |-> <<>>]
    /\ proc = [p \in Processes |-> "down"]
    /\ built = NoGraph
    /\ InitAdmin

\* python build_cache.py: builds from the whole CSV and dumps the graph
RunBuildCache ==
    /\ cache' = CacheOf(BuildGraph(csv), csv)
    /\ built' = BuildGraph(csv)
    /\ UNCHANGED <<pipeVars, call, csv, G, builtFrom, proc, adminVars>>

\* the backend is imported on a record store of n rows: df = load_data()
\* .head(n); G = build_graph(df); an exception of build_graph ends the import
StartBackendHead(n) ==
    /\ proc[Backend] = "down"
    /\ LET b == build_graph(HeadRows(csv, n), cache)
       IN  /\ G' = [G EXCEPT ![Backend] = b.graph]
           /\ builtFrom' = [builtFrom EXCEPT ![Backend] = b.from]
           /\ cache' = b.cache
           /\ proc' = [proc EXCEPT ![Backend] = IF b.raised THEN "failed" ELSE "serving"]
           /\ built' = IF cache.exists THEN built ELSE b.graph
    /\ UNCHANGED <<pipeVars, call, csv, adminVars>>

\* the backend is imported: df = load_data().head(1000); G = build_graph(df)
StartBackend == StartBackendHead(HeadN)

\* dashboard_backend.py lines 12-30: load the cache, else build from fraud_df;
\* nothing is written back
dashboard_graph(data, file) ==
    IF file.exists
    THEN IF file.corrupt
         THEN [raised |-> TRUE, graph |-> NoGraph, from |-> <<>>]
         ELSE [raised |-> FALSE, graph |-> file.graph, from |-> file.from]
    ELSE [raised |-> FALSE, graph |-> BuildGraph(data), from |-> data]

\* the dashboard is imported
StartDashboard ==
    /\ proc[Dashboard] = "down"
    /\ LET b == dashboard_graph(csv, cache)
       IN  /\ G' = [G EXCEPT ![Dashboard] = b.graph]
           /\ builtFrom' = [builtFrom EXCEPT ![Dashboard] = b.from]
           /\ proc' = [proc EXCEPT ![Dashboard] = IF b.raised THEN "failed" ELSE "serving"]
           /\ built' = IF cache.exists THEN built ELSE b.graph
    /\ UNCHANGED <<pipeVars, call, csv, cache, adminVars>>

GraphNext ==
    \/ RunBuildCache
    \/ StartBackend
    \/ StartDashboard

GraphSpec == GraphInit /\ [][GraphNext]_vars

(***************************************************************************)
(* The fraud-network service and the dashboard answering requests          *)
(***************************************************************************)
NetRecords == 6

\* the rows record i may be here: every record may hold the shared bank
\* account, the first two also the shared phone number
NetRowChoices(i) ==
    [beneficiary_id : {BenId(i)},
     phone_number : IF i <= 2 THEN {NaN, "p1"} ELSE {NaN},
     bank_account : {NaN, "k1"},
     agent_id : {NaN},
     aadhaar_like_id : {NaN}]

RECURSIVE NetRowsOf(_)
NetRowsOf(n) ==
    IF n = 0 THEN {<<>>}
    ELSE {Append(rows, row) : rows \in NetRowsOf(n - 1), row \in NetRowChoices(n)}

\* a record store small enough for df = load_data().head(..) to hold all of it
NetInit ==
    /\ InitRequests
    /\ call = NoCall
    /\ csv \in UNION {NetRowsOf(n) : n \in 1..NetRecords}
    /\ cache = NoCache
    /\ G = [p \in Processes |-> NoGraph]
    /\ builtFrom = [p \in Processes |-> <<>>]
    /\ proc = [p \in Processes |-> "down"]
    /\ built = NoGraph
    /\ InitAdmin

\* the ids a client may ask about: of records, of no record, or none at all
NetIds == {PyStr(BenId(i)) : i \in 1..(NetRecords + 1)} \cup {PyNone}

\* POST /predict on the backend whose df holds the first n rows
PredictHead(n, selected_id, m) ==
    /\ proc[Backend] = "serving"
    /\ call' = [fn |-> "predict", data |-> selected_id, m |-> m,
                out |-> predict(selected_id, m, HeadRows(csv, n), G[Backend])]
    /\ G' = [G EXCEPT ![Backend] = graph_after_predict(@, selected_id.s)]
    /\ UNCHANGED <<pipeVars, csv, cache, builtFrom, proc, built, adminVars>>

\* GET /stats on the dashboard
GetStats ==
    /\ proc[Dashboard] = "serving"
    /\ call' = [fn |-> "get_stats", out |-> get_stats(csv, G[Dashboard])]
    /\ UNCHANGED <<pipeVars, graphVars, adminVars>>

\* GET /fraud-network on the dashboard
GetFraudNetwork ==
    /\ proc[Dashboard] = "serving"
    /\ call' = [fn |-> "get_fraud_network", out |-> get_fraud_network(G[Dashboard])]
    /\ UNCHANGED <<pipeVars, graphVars, adminVars>>

\* the processes start and one request is answered
NetNext ==
    \/ StartBackendHead(NetRecords)
    \/ StartDashboard
    \/ call = NoCall /\ \E id \in NetIds, m \in ModelBehaviours :
                            PredictHead(NetRecords, id, m)
    \/ call = NoCall /\ GetStats
    \/ call = NoCall /\ GetFraudNetwork

NetSpec == NetInit /\ [][NetNext]_vars

(***************************************************************************)
(* The graph functions under reordered records and renamed nodes           *)
(***************************************************************************)
PermRecords == 3

\* the rows record i may be here: with or without the shared phone number
\* and the shared bank account
PermRowChoices(i) ==
    [beneficiary_id : {BenId(i)},
     phone_number : {NaN, "p1"},
     bank_account : {NaN, "k1"},
     agent_id : {NaN},
     aadhaar_like_id : {NaN}]

RECURSIVE PermRowsOf(_)
PermRowsOf(n) ==
    IF n = 0 THEN {<<>>}
    ELSE {Append(rows, row) : rows \in PermRowsOf(n - 1), row \in PermRowChoices(n)}

PermInit ==
    /\ InitRequests
    /\ call = NoCall
    /\ csv \in UNION {PermRowsOf(n) : n \in 1..PermRecords}
    /\ cache = NoCache
    /\ G = [p \in Processes |-> NoGraph]
    /\ builtFrom = [p \in Processes |-> <<>>]
    /\ proc = [p \in Processes |-> "down"]
    /\ built = NoGraph
    /\ InitAdmin

\* the permutations of the positions 1..n
PositionPerms(n) ==
    {f \in [1..n -> 1..n] : \A i, j \in 1..n : f[i] = f[j] => i = j}

\* the same records in another order
Reorder(rows, perm) == [i \in 1..Len(rows) |-> rows[perm[i]]]

\* nx.relabel_nodes(G, mapping): node BenId(i) becomes BenId(perm[i])
Relabel(g, perm) ==
    LET image(n) == BenId(perm[IdIndex(n)])
    IN  [nodes |-> {image(n) : n \in g.nodes},
         edges |-> {<<image(e[1]), image(e[2])>> : e \in g.edges}]

\* the hub flag predict gives every node of g
HubFlags(g) == [n \in g.nodes |-> master_agent_detection(g, n).is_master_agent]

\* build_graph on the records as they are and on the reordered records
Rebuild(perm) ==
    /\ call = NoCall
    /\ call' = [fn |-> "build_graph", perm |-> perm,
                out |-> BuildGraph(csv),
                image |-> BuildGraph(Reorder(csv, perm))]
    /\ UNCHANGED <<pipeVars, graphVars, adminVars>>

\* the hub flags of the graph and of the graph with its nodes renamed
HubRelabeled(perm) ==
    /\ call = NoCall
    /\ call' = [fn |-> "hubs", perm |-> perm,
                out |-> HubFlags(BuildGraph(csv)),
                image |-> HubFlags(Relabel(BuildGraph(csv), perm))]
    /\ UNCHANGED <<pipeVars, graphVars, adminVars>>

PermNext ==
    \/ \E perm \in PositionPerms(Len(csv)) : Rebuild(perm)
    \/ \E perm \in PositionPerms(Len(csv)) : HubRelabeled(perm)

PermSpec == PermInit /\ [][PermNext]_vars

(***************************************************************************)
(* Start-up against a cache file that is missing, good or unreadable       *)
(***************************************************************************)
CacheInit ==
    /\ InitRequests
    /\ call = NoCall
    /\ csv \in PermRowsOf(PermRecords)
    /\ cache = NoCache
    /\ G = [p \in Processes |-> NoGraph]
    /\ builtFrom = [p \in Processes |-> <<>>]
    /\ proc = [p \in Processes |-> "down"]
    /\ built = NoGraph
    /\ InitAdmin

\* graph_cache.pkl is damaged on disk: a dump that was cut short, a file
\* written by another version
CorruptCache ==
    /\ cache.exists /\ ~cache.corrupt
    /\ cache' = CorruptCacheOf(cache)
    /\ UNCHANGED <<pipeVars, call, csv, G, builtFrom, proc, built, adminVars>>

CacheNext ==
    \/ RunBuildCache
    \/ CorruptCache
    \/ StartBackend
    \/ StartDashboard

CacheSpec == CacheInit /\ [][CacheNext]_vars

(***************************************************************************)
(* All the readers of the record store, the graph and the cache at once    *)
(***************************************************************************)
\* a pipeline request, predict requests and dashboard requests interleave,
\* again and again, while the dashboard starts and the cache is rebuilt
ServeNext ==
    \/ \E d \in ConcDocs : Receive(1, d)
    \/ Normalize(1)
    \/ Dispatch(1)
    \/ \E s \in Stages : StageComplete(1, s, "negative", "dict")
    \/ Collect(1)
    \/ Respond(1)
    \/ \E id \in NetIds, m \in ModelBehaviours : PredictHead(HeadN, id, m)
    \/ StartDashboard
    \/ GetStats
    \/ GetFraudNetwork
    \/ RunBuildCache

ServeSpec == Init /\ [][ServeNext]_vars

(***************************************************************************)
(* Restarts: the processes stop and start again around cache rebuilds      *)
(***************************************************************************)
\* process p ends (app.run returns); its module globals are gone
Stop(p) ==
    /\ proc[p] # "down"
    /\ proc' = [proc EXCEPT ![p] = "down"]
    /\ G' = [G EXCEPT ![p] = NoGraph]
    /\ builtFrom' = [builtFrom EXCEPT ![p] = <<>>]
    /\ UNCHANGED <<pipeVars, call, csv, cache, built, adminVars>>

RestartNext ==
    \/ RunBuildCache
    \/ StartBackend
    \/ StartDashboard
    \/ \E p \in Processes : Stop(p)
    \/ \E id \in NetIds : PredictHead(HeadN, id, "negative")

RestartSpec == PermInit /\ [][RestartNext]_vars

(***************************************************************************)
(* The admin decision layer: /decide and /init-cases, served by threads    *)
(***************************************************************************)
\* what a client may post to /decide: the id of a demo case or of no case
DecideInputs ==
    [case_id : {"1", "3"}, decision : {"approve", "reject"},
     notes : {PyStr(""), PyStr("checked")}]

\* submit_decision, lines 117-122: the request is read and the store loaded
DecideLoad(a, input) ==
    /\ handler[a].pc = "Idle"
    /\ handler' = [handler EXCEPT ![a] =
                      [pc |-> "Loaded", fn |-> "decide", case_id |-> input.case_id,
                       decision |-> input.decision, notes |-> input.notes,
                       data |-> load_decisions(decisions)]]
    /\ UNCHANGED <<pipeVars, call, graphVars, decisions>>

\* submit_decision, lines 124-142: the entry is appended to the loaded data,
\* the case updated, and the data saved over the file
DecideSave(a) ==
    /\ handler[a].pc = "Loaded" /\ handler[a].fn = "decide"
    /\ LET h == handler[a]
       IN  decisions' = save_decisions(decide(h.data, h.case_id, h.decision, h.notes))
    /\ handler' = [handler EXCEPT ![a].pc = "Done"]
    /\ UNCHANGED <<pipeVars, call, graphVars>>

\* init_cases, line 318: the store is loaded
InitCasesLoad(a) ==
    /\ handler[a].pc = "Idle"
    /\ handler' = [handler EXCEPT ![a].pc = "Loaded", ![a].fn = "init_cases",
                                  ![a].data = load_decisions(decisions)]
    /\ UNCHANGED <<pipeVars, call, graphVars, decisions>>

\* init_cases, lines 319-325: if not data['cases'], seed them and save
InitCasesSave(a) ==
    /\ handler[a].pc = "Loaded" /\ handler[a].fn = "init_cases"
    /\ decisions' = IF handler[a].data.cases = <<>>
                    THEN save_decisions(seed_cases(handler[a].data))
                    ELSE decisions
    /\ handler' = [handler EXCEPT ![a].pc = "Done"]
    /\ UNCHANGED <<pipeVars, call, graphVars>>

AdminNext ==
    \/ \E a \in AdminRequests, input \in DecideInputs : DecideLoad(a, input)
    \/ \E a \in AdminRequests : DecideSave(a)
    \/ \E a \in AdminRequests : InitCasesLoad(a)
    \/ \E a \in AdminRequests : InitCasesSave(a)

AdminSpec == Init /\ [][AdminNext]_vars

(***************************************************************************)
(* Vocabulary of the properties                                            *)
(***************************************************************************)
ResultKeys ==
    {"nlp_extraction", "anomaly_detection", "duplicate_detection",
     "fraud_network_analysis"}

ValidationMessages ==
    {"Invalid annual_income", "Invalid registrations_per_aadhaar (1-10)",
     "Invalid bank_shared_count (1-15)", "Invalid phone_shared_count (1-15)",
     "Invalid aadhaar_like_id", "Invalid phone_number", "Invalid bank_account",
     "Invalid household_id"}

\* the dict a stage result carries, whether returned plain or in a tuple
ContentOf(v) == IF IsTuple(v) THEN v.tuple_content ELSE v
IsFailure(v) == HasError(ContentOf(v))
IsSuccess(v) == ~IsFailure(v)
IsNotFound(v) == IsFailure(v) /\ ContentOf(v).error = NotInDataset
IsValidationFailure(v) == IsFailure(v) /\ ContentOf(v).error.s \in ValidationMessages
IsInternalFailure(v) == IsFailure(v) /\ ~IsNotFound(v) /\ ~IsValidationFailure(v)
\* the status pipeline_basic answers a stage failure with
FailureStatus(v) == IF IsTuple(v) THEN v.tuple_status ELSE 400

AllStagesDone(r) == \A s \in Stages : IsOutcome(done[r][s])
Answered(r) == Len(resp[r]) > 0
\* the request was answered after its stages were collected
AnsweredAfterStages(r) == Answered(r) /\ AllStagesDone(r) /\ gathered[r] # <<>>
StageValue(r, s) == done[r][s].value

(***************************************************************************)
(* C1. Every result pipeline_basic produces carries exactly the fixed set  *)
(* of entries nlp_extraction, anomaly_detection, duplicate_detection and   *)
(* fraud_network_analysis, whatever the stages returned.                   *)
(***************************************************************************)
C1_ResultKeysFixed ==
    \A r \in Requests :
        pc[r] = "Aggregated" =>
            /\ Len(resp[r]) = 1
            /\ DOMAIN resp[r][1].content = ResultKeys

\* a result was produced although the fraud stage returned a failure
C1_Witness ==
    /\ pc[1] = "Aggregated"
    /\ IsFailure(StageValue(1, "fraud"))
    /\ DOMAIN resp[1][1].content = ResultKeys

(***************************************************************************)
(* C2 as claimed. When exactly one stage returns an internal failure and   *)
(* the other two succeed, the request is aggregated, with two success      *)
(* entries and one failure entry.                                          *)
(***************************************************************************)
OneInternalFailure(r, s) ==
    /\ AnsweredAfterStages(r)
    /\ IsInternalFailure(StageValue(r, s))
    /\ \A o \in Stages \ {s} : IsSuccess(StageValue(r, o))

C3_NotFoundSoftFails ==
    \A r \in Requests :
        (AnsweredAfterStages(r) /\ IsNotFound(StageValue(r, "fraud"))) =>
            IF IsSuccess(StageValue(r, "anomaly")) /\ IsSuccess(StageValue(r, "duplicate"))
            THEN /\ pc[r] = "Aggregated"
                 /\ DOMAIN resp[r][1].content = ResultKeys
                 /\ LET f == resp[r][1].content.fraud_network_analysis
                    IN  /\ f = NeutralDefault(features[r])
                        /\ f.fraud_probability = PyFloat(0)
                        /\ f.connected_component_size = PyInt(0)
                        /\ f.fraud_ring_detected = PyBool(FALSE)
                        /\ f.degree_centrality = PyFloat(0)
                        /\ f.master_agent_detected = PyBool(FALSE)
            ELSE /\ pc[r] = "AbortedHard"
                 /\ \E s \in {"anomaly", "duplicate"} :
                        /\ IsFailure(StageValue(r, s))
                        /\ resp[r][1].content = ContentOf(StageValue(r, s))

\* not-in-dataset arrived as a tuple and the request was aggregated
C3_Witness ==
    /\ pc[1] = "Aggregated"
    /\ IsTuple(StageValue(1, "fraud"))
    /\ IsNotFound(StageValue(1, "fraud"))
    /\ resp[1][1].content.fraud_network_analysis.fraud_ring_detected = PyBool(FALSE)

(***************************************************************************)
(* C4. A validation failure of any stage aborts the request: the caller    *)
(* gets one failure response and no aggregated result, whatever the other  *)
(* stages returned.                                                        *)
(***************************************************************************)
C4_ValidationAborts ==
    \A r \in Requests :
        (AnsweredAfterStages(r) /\ \E s \in Stages : IsValidationFailure(StageValue(r, s))) =>
            /\ pc[r] = "AbortedHard"
            /\ Len(resp[r]) = 1
            /\ resp[r][1].status # 200
            /\ "error" \in DOMAIN resp[r][1].content
            /\ DOMAIN resp[r][1].content \cap ResultKeys = {}

\* the duplicate stage rejected its input, the other stages succeeded
C4_Witness ==
    /\ pc[1] = "AbortedHard"
    /\ AnsweredAfterStages(1)
    /\ IsValidationFailure(StageValue(1, "duplicate"))
    /\ ContentOf(StageValue(1, "duplicate")).error = PyStr("Invalid aadhaar_like_id")
    /\ IsSuccess(StageValue(1, "anomaly"))
    /\ IsSuccess(StageValue(1, "fraud"))

(***************************************************************************)
(* C5. A response is either a complete result, with an entry for every     *)
(* stage, or one top-level failure with no stage entry; a request is       *)
(* answered at most once and never with some of the entries.               *)
(***************************************************************************)
C5_CompleteOrFailure ==
    \A r \in Requests :
        /\ Len(resp[r]) <= 1
        /\ Answered(r) =>
            LET keys == DOMAIN resp[r][1].content
            IN  \/ /\ pc[r] = "Aggregated"
                   /\ resp[r][1].status = 200
                   /\ keys = ResultKeys
                \/ /\ pc[r] = "AbortedHard"
                   /\ resp[r][1].status # 200
                   /\ "error" \in keys
                   /\ keys \cap ResultKeys = {}

\* two stages succeeded, the third failed: the answer is the failure alone
C5_Witness ==
    /\ AnsweredAfterStages(1)
    /\ IsSuccess(StageValue(1, "anomaly"))
    /\ IsSuccess(StageValue(1, "duplicate"))
    /\ IsInternalFailure(StageValue(1, "fraud"))
    /\ DOMAIN resp[1][1].content = {"error"}

(***************************************************************************)
(* C6. Two requests with the same extraction and the same output of every  *)
(* stage get the same response, in whatever order their stages completed.  *)
(***************************************************************************)
SameOutputs(r1, r2) ==
    /\ AnsweredAfterStages(r1) /\ AnsweredAfterStages(r2)
    /\ nlp_result[r1] = nlp_result[r2]
    /\ features[r1] = features[r2]
    /\ \A s \in Stages : done[r1][s] = done[r2][s]

C6_OrderIndependent ==
    \A r1, r2 \in Requests : SameOutputs(r1, r2) => resp[r1] = resp[r2]

\* same outputs, opposite completion orders
C6_Witness ==
    /\ SameOutputs(1, 2)
    /\ arrival[1] = <<"anomaly", "duplicate", "fraud">>
    /\ arrival[2] = <<"fraud", "duplicate", "anomaly">>
    /\ pc[1] = "Aggregated"

(***************************************************************************)
(* C7. Nothing is collected, normalized, aggregated or answered from the   *)
(* stage results of a request before all three stage threads have          *)
(* finished.                                                               *)
(***************************************************************************)
Dispatched(r) == \A s \in Stages : done[r][s] # NotStarted

C7_WaitsForAllStages ==
    \A r \in Requests :
        (Dispatched(r) /\ (gathered[r] # <<>> \/ Answered(r)
                           \/ pc[r] \in {"StagesCollected", "Aggregated", "AbortedHard"}))
            => /\ AllStagesDone(r)
               /\ \A i \in 1..3 : gathered[r][i] = StageValue(r, TaskOrder[i])

\* the results were collected after the anomaly stage finished last
C7_Witness ==
    /\ pc[1] = "StagesCollected"
    /\ arrival[1] = <<"fraud", "duplicate", "anomaly">>
    /\ gathered[1] # <<>>

(***************************************************************************)
(* C8. predict_anomaly and predict_duplicate never raise: on every input   *)
(* they return a dict, which is a success payload or carries 'error'.      *)
(***************************************************************************)
C8_AdaptersNeverRaise ==
    call # NoCall =>
        /\ ~call.out.raised
        /\ IsDict(call.out.value)
        /\ \/ "error" \in DOMAIN call.out.value
           \/ "prediction" \in DOMAIN call.out.value

\* a None record, and a failure inside the model call, came back as 'error'
C8_Witness ==
    /\ call # NoCall
    /\ call.fn = "predict_anomaly"
    /\ \/ call.data = PyNone
       \/ call.data # PyNone /\ call.m = "raise"
             /\ call.out.value = [error |-> PyStr("model failure")]
    /\ "error" \in DOMAIN call.out.value

(***************************************************************************)
(* C9. With several requests in flight, every entry of a response was      *)
(* computed from the features of the request it answers, and a cancelled   *)
(* request is never answered, while its threads run on.                    *)
(***************************************************************************)
\* the input a stage entry was computed from
DuplicateInput(entry) ==
    IF "duplicate_risk" \in DOMAIN entry THEN entry.duplicate_risk.of
    ELSE entry.confidence_genuine.of

C9_NoCrossRequestLeak ==
    \A r \in Requests :
        /\ pc[r] = "Cancelled" => resp[r] = <<>>
        /\ pc[r] = "Aggregated" =>
            LET c == resp[r][1].content
                f == features[r]
            IN  /\ c.nlp_extraction = extract_nlp(doc[r]).value
                /\ c.anomaly_detection.anomaly_score.of[1] = f.annual_income
                /\ DuplicateInput(c.duplicate_detection).name = PyStrOf(f.name)
                /\ DuplicateInput(c.duplicate_detection).aadhaar_like_id
                       = PyStrOf(f.aadhaar_like_id)
                /\ c.fraud_network_analysis.beneficiary_id = f.beneficiary_id
        /\ \A s \in Stages :
              IsOutcome(done[r][s]) =>
                  \E m \in ModelBehaviours, shape \in Shapes :
                      done[r][s] = RunStage(s, features[r], m, shape,
                                            HeadRows(csv, HeadN), G[Backend])

\* one request was cancelled with finished threads, the other one, on a
\* different document, was aggregated
C9_Witness ==
    /\ pc[1] = "Cancelled"
    /\ AllStagesDone(1)
    /\ pc[2] = "Aggregated"
    /\ features[1] # features[2]

(***************************************************************************)
(* The graph a record set stands for                                       *)
(***************************************************************************)
\* records i and j share a non-empty value of a linking attribute
ShareLink(rows, i, j) ==
    \E c \in DOMAIN ColumnValues : rows[i][c] # NaN /\ rows[i][c] = rows[j][c]

\* a and b are distinct records of rows that share a linking attribute
Linked(rows, a, b) ==
    /\ a # b
    /\ \E i, j \in DOMAIN rows :
          /\ rows[i].beneficiary_id = a
          /\ rows[j].beneficiary_id = b
          /\ ShareLink(rows, i, j)

\* g has one node per record of rows, is simple and symmetric, and joins
\* exactly the linked records
IsLinkGraph(g, rows) ==
    /\ g.nodes = IdsOf(rows)
    /\ Cardinality(g.nodes) = Len(rows)
    /\ g.edges \subseteq g.nodes \X g.nodes
    /\ \A a, b \in g.nodes :
          /\ <<a, b>> \in g.edges <=> <<b, a>> \in g.edges
          /\ <<a, b>> \in g.edges <=> Linked(rows, a, b)

(***************************************************************************)
(* C10. Every graph build_graph builds has one node per record of the      *)
(* record set it was built from and is simple and symmetric: (a,b) is an   *)
(* edge iff (b,a) is, and iff a and b are distinct records that share a    *)
(* non-empty phone_number, bank_account, agent_id or aadhaar_like_id;      *)
(* several shared attributes give one edge and empty values give none.     *)
(* This holds of the graphs of build_cache.py and of the backend, built or *)
(* read back from the cache file, and of the copies the processes serve.   *)
(***************************************************************************)
C10_BuiltGraphIsLinkGraph ==
    /\ cache.exists => IsLinkGraph(cache.graph, cache.from)
    /\ \A p \in Processes : G[p] # NoGraph => IsLinkGraph(G[p], builtFrom[p])
    /\ G[Backend] # NoGraph =>
          \/ builtFrom[Backend] = HeadRows(csv, HeadN)
          \/ cache.exists /\ cache.graph = G[Backend] /\ builtFrom[Backend] = cache.from

\* the backend built its graph from records 1 and 2, which share a phone
\* number and a bank account and are joined once; the whole file was built
\* too, and record 3 shares only empty values with them and has no edge
C10_Witness ==
    /\ Len(csv) = 3
    /\ G[Backend] # NoGraph
    /\ builtFrom[Backend] = HeadRows(csv, HeadN)
    /\ csv[1].phone_number = "p1" /\ csv[2].phone_number = "p1"
    /\ csv[1].bank_account = "k1" /\ csv[2].bank_account = "k1"
    /\ G[Backend].edges = {<<BenId(1), BenId(2)>>, <<BenId(2), BenId(1)>>}
    /\ G[Dashboard] # NoGraph
    /\ builtFrom[Dashboard] = csv
    /\ \A c \in DOMAIN ColumnValues : csv[3][c] = NaN
    /\ G[Dashboard].nodes = {BenId(1), BenId(2), BenId(3)}
    /\ G[Dashboard].edges = G[Backend].edges

(***************************************************************************)
(* Vocabulary of the graph service properties                              *)
(***************************************************************************)
Serving(p) == proc[p] = "serving"
\* the last request was a predict that was answered with a result
Predicted == call.fn = "predict" /\ call.out.status = 200
PredictedId == call.data.s
\* the components of g that hold node n
ComponentsOf(g, n) == {c \in connected_components(g) : n \in c}

(***************************************************************************)
(* C11. The connected components the ring detector uses partition the      *)
(* node set: no component is empty, two different components are          *)
(* disjoint, their union is the node set, so every node lies in exactly    *)
(* one component; and the size predict reports for a node of the graph is  *)
(* the size of that one component.                                         *)
(***************************************************************************)
C11_ComponentsPartition ==
    /\ \A p \in Processes :
          Serving(p) =>
              LET cs == connected_components(G[p])
              IN  /\ UNION cs = G[p].nodes
                  /\ \A c \in cs : c # {}
                  /\ \A c1, c2 \in cs : c1 # c2 => c1 \cap c2 = {}
                  /\ \A n \in G[p].nodes : Cardinality(ComponentsOf(G[p], n)) = 1
    /\ (Predicted /\ PredictedId \in G[Backend].nodes) =>
          \A c \in ComponentsOf(G[Backend], PredictedId) :
              call.out.content.connected_component_size = PyInt(Cardinality(c))

\* records 1 and 2 share the phone, 2, 3 and 4 the bank account: record 1 is
\* in a component of four without being adjacent to record 3, and there is
\* a second component
C11_Witness ==
    /\ Predicted
    /\ PredictedId = BenId(1)
    /\ call.out.content.connected_component_size = PyInt(4)
    /\ <<BenId(1), BenId(3)>> \notin G[Backend].edges
    /\ Cardinality(connected_components(G[Backend])) >= 2

(***************************************************************************)
(* C12. predict reports fraud_ring_detected exactly when the component of  *)
(* the queried id has at least 5 nodes.  Five records that share one bank  *)
(* account and nothing else are one component of size 5, a ring; a sixth,  *)
(* unrelated record is a component of its own and no ring.                 *)
(***************************************************************************)
\* records 1..5 share the bank account and nothing else, record 6 shares nothing
FiveAndOne ==
    /\ Len(csv) = 6
    /\ \A i \in 1..5 : csv[i].bank_account = "k1" /\ csv[i].phone_number = NaN
    /\ csv[6].bank_account = NaN /\ csv[6].phone_number = NaN

C12_RingIffAtLeastFive ==
    /\ (Predicted /\ PredictedId \in G[Backend].nodes) =>
          \A c \in ComponentsOf(G[Backend], PredictedId) :
              call.out.content.fraud_ring_detected = PyBool(Cardinality(c) >= 5)
    /\ (Predicted /\ FiveAndOne) =>
          IF PredictedId = BenId(6)
          THEN /\ call.out.content.connected_component_size = PyInt(1)
               /\ call.out.content.fraud_ring_detected = PyBool(FALSE)
          ELSE /\ call.out.content.connected_component_size = PyInt(5)
               /\ call.out.content.fraud_ring_detected = PyBool(TRUE)
    /\ (call.fn = "get_stats" /\ FiveAndOne) => call.out.fraud_rings = PyInt(1)

\* the scenario: one of the five is asked about and reported as a ring member
C12_Witness ==
    /\ Predicted
    /\ FiveAndOne
    /\ PredictedId = BenId(3)
    /\ call.out.content.fraud_ring_detected = PyBool(TRUE)
    /\ call.out.content.connected_component_size = PyInt(5)

(***************************************************************************)
(* C13. Ring classification is monotonic in the threshold: for thresholds  *)
(* t1 <= t2 the components classified as rings with t2 are among those     *)
(* classified with t1; the dashboard's ring count is the number classified *)
(* with the threshold 5.                                                   *)
(***************************************************************************)
Thresholds == 0..(NetRecords + 1)

C14_CentralityDefined ==
    (Predicted /\ PredictedId \in G[Backend].nodes) =>
        LET size == Cardinality(G[Backend].nodes)
            score == call.out.content.degree_centrality.e4
        IN  /\ 0 <= score /\ score <= 10000
            /\ IF size <= 1
               THEN score = 0
               ELSE score = Round4(Frac(degree(G[Backend], PredictedId), size - 1))

(***************************************************************************)
(* C15. Hub classification is stable under relabeling: for every graph and *)
(* every permutation of the node ids, a node is flagged as master agent in *)
(* the graph iff its image is flagged in the relabeled graph.              *)
(***************************************************************************)
C15_HubsStableUnderRelabeling ==
    call.fn = "hubs" =>
        /\ DOMAIN call.out = IdsOf(csv)
        /\ DOMAIN call.image = IdsOf(csv)
        /\ \A i \in 1..Len(csv) :
              call.out[BenId(i)] = call.image[BenId(call.perm[i])]

\* record 1 is joined to records 2 and 3, which are not joined: only record
\* 1 is a hub, and after renaming 1 -> 2 -> 3 -> 1 only node 2 is
C15_Witness ==
    /\ call.fn = "hubs"
    /\ Len(csv) = 3
    /\ call.perm = <<2, 3, 1>>
    /\ call.out = (BenId(1) :> TRUE) @@ (BenId(2) :> FALSE) @@ (BenId(3) :> FALSE)
    /\ call.image = (BenId(1) :> FALSE) @@ (BenId(2) :> TRUE) @@ (BenId(3) :> FALSE)

(***************************************************************************)
(* C16. The graph build_graph builds depends only on the records: the same *)
(* records in any other order, or built a second time, give the same node  *)
(* set and the same edge set.                                              *)
(***************************************************************************)
C16_BuildIgnoresOrder ==
    call.fn = "build_graph" =>
        /\ call.image.nodes = call.out.nodes
        /\ call.image.edges = call.out.edges
        /\ IsLinkGraph(call.image, csv)

\* three records share the bank account and are built in the order 2, 1, 3:
\* all three pairs are joined either way
C16_Witness ==
    /\ call.fn = "build_graph"
    /\ Len(csv) = 3
    /\ \A i \in 1..3 : csv[i].bank_account = "k1"
    /\ call.perm = <<2, 1, 3>>
    /\ Cardinality(call.image.edges) = 6
    /\ call.image = call.out

(***************************************************************************)
(* C17. A cache that cannot be loaded is never fatal: whether the file is  *)
(* missing or corrupt, the backend's build_graph and the dashboard's       *)
(* start-up build the graph from the records, and start-up ends with a     *)
(* usable graph.                                                           *)
(***************************************************************************)
C17_CacheFailureNeverFatal ==
    \A p \in Processes :
        /\ proc[p] # "failed"
        /\ proc[p] = "serving" =>
              /\ G[p] # NoGraph
              /\ IsLinkGraph(G[p], builtFrom[p])

(***************************************************************************)
(* C18. The record store, the graph and the cache file are read-only for   *)
(* requests: no step of a predict, pipeline_basic, get_stats or            *)
(* get_fraud_network request changes the records, the node or edge set of  *)
(* a graph in service, or the cache file, however the requests interleave; *)
(* and a request is only ever answered from a completely built graph.      *)
(***************************************************************************)
\* a step of some request
RequestStep == call' # call \/ pipeVars' # pipeVars

\* what a request has read is the complete graph of a record set
ReadersSeeBuiltGraph ==
    /\ call.fn = "predict" =>
          Serving(Backend) /\ IsLinkGraph(G[Backend], builtFrom[Backend])
    /\ call.fn \in {"get_stats", "get_fraud_network"} =>
          Serving(Dashboard) /\ IsLinkGraph(G[Dashboard], builtFrom[Dashboard])
    /\ (\E s \in Stages : IsOutcome(done[1][s])) =>
          Serving(Backend) /\ IsLinkGraph(G[Backend], builtFrom[Backend])

C18_SharedStateReadOnly ==
    /\ []ReadersSeeBuiltGraph
    /\ [][RequestStep => UNCHANGED <<csv, cache, G, builtFrom, proc>>]_vars

\* a predict about a joined record, a dashboard request and a whole pipeline
\* request have been answered, and the graph still joins records 1 and 2
C18_Witness ==
    /\ pc[1] = "Aggregated"
    /\ call.fn = "get_stats"
    /\ Serving(Dashboard)
    /\ cache.from = csv
    /\ G[Backend].edges = {<<BenId(1), BenId(2)>>, <<BenId(2), BenId(1)>>}

(***************************************************************************)
(* C19. Feature normalization fails hard only when the extraction gave no  *)
(* fields at all (it returned an error or raised); in every other case,    *)
(* also when single identifying fields are missing, it yields a complete   *)
(* features record and the stages are dispatched.                          *)
(***************************************************************************)
\* extract_nlp gave no extraction for the document of request r
ExtractionFailed(r) ==
    LET o == extract_nlp(doc[r]) IN o.raised \/ "error" \in DOMAIN o.value

\* the keys lines 64-105 always set
RequestKeys ==
    {"annual_income", "name", "registrations_per_aadhaar", "bank_shared_count",
     "phone_shared_count", "district", "beneficiary_id"}

C19_NormalizationFailsOnlyWithoutFields ==
    \A r \in Requests :
        pc[r] \notin {"Idle", "Received", "Cancelled"} =>
            IF ExtractionFailed(r)
            THEN /\ pc[r] = "AbortedHard"
                 /\ ~Dispatched(r)
                 /\ features[r] = EmptyDict
            ELSE /\ \A k \in RequestKeys : features[r][k] # Absent
                 /\ IsNumber(features[r].annual_income)
                 /\ \/ pc[r] = "FeaturesNormalized" /\ ENABLED Dispatch(r)
                    \/ Dispatched(r)

\* a readable document in which no field was found: the request got the
\* defaults and its stages were dispatched
C19_Witness ==
    /\ pc[1] = "StagesDispatched"
    /\ doc[1].kind = "pdf"
    /\ DOMAIN nlp_result[1].regex_results = {}
    /\ features[1].beneficiary_id = PyStr("BEN0001")
    /\ features[1].aadhaar_like_id = Absent

(***************************************************************************)
(* C20 as claimed. A request passes through Received, FeaturesNormalized,  *)
(* StagesDispatched, StagesCollected and Aggregated in that order, and     *)
(* ends in AbortedHard only from FeaturesNormalized or StagesCollected:    *)
(* never from Received, never with stages in flight; Aggregated and        *)
(* AbortedHard are terminal.                                               *)
(***************************************************************************)
\* the steps of the happy path, and a caller going away at an await
PathSteps ==
    {<<"Idle", "Received">>, <<"Received", "FeaturesNormalized">>,
     <<"FeaturesNormalized", "StagesDispatched">>,
     <<"StagesDispatched", "StagesCollected">>,
     <<"StagesCollected", "Aggregated">>,
     <<"Received", "Cancelled">>, <<"StagesDispatched", "Cancelled">>}

ClaimedSteps ==
    PathSteps \cup {<<"FeaturesNormalized", "AbortedHard">>,
                    <<"StagesCollected", "AbortedHard">>}

C20_LifecycleAsClaimed ==
    [][\A r \in Requests : pc'[r] # pc[r] => <<pc[r], pc'[r]>> \in ClaimedSteps]_vars

(***************************************************************************)
(* C20 as amended. A request passes through Received, FeaturesNormalized,  *)
(* StagesDispatched, StagesCollected and Aggregated in that order, and     *)
(* ends in AbortedHard only from Received, when the extraction failed, or  *)
(* from StagesCollected: never from FeaturesNormalized, never with stages  *)
(* in flight; Aggregated and AbortedHard are terminal.                     *)
(***************************************************************************)
ActualSteps ==
    PathSteps \cup {<<"Received", "AbortedHard">>,
                    <<"StagesCollected", "AbortedHard">>}

C20_Lifecycle ==
    [][\A r \in Requests :
          pc'[r] # pc[r] =>
              /\ <<pc[r], pc'[r]>> \in ActualSteps
              /\ (pc[r] = "Received" /\ pc'[r] = "AbortedHard") => ExtractionFailed(r)]_vars

\* the document had no text: the request was aborted before any features
\* were built
C20_Witness ==
    /\ pc[1] = "AbortedHard"
    /\ doc[1].kind = "unreadable"
    /\ features[1] = EmptyDict
    /\ ~Dispatched(1)
    /\ resp[1][1].status = 400

(***************************************************************************)
(* C21: a node is flagged as hub exactly when its degree-centrality score  *)
(* is at least the 95th percentile of the scores of the graph in service   *)
(* at the time of the call: every predict computes the distribution anew,  *)
(* so after a restart on a rebuilt graph no earlier threshold is applied.  *)
(***************************************************************************)
\* the hub flag as the claim defines it, on graph g
FlaggedHub(g, id) ==
    /\ id \in g.nodes
    /\ FracGeq(degree_centrality(g)[id], quantile_95(degree_centrality(g)))

C21_HubByCurrentQuantile ==
    [][(call' # call /\ call'.fn = "predict" /\ call'.out.status = 200)
          => call'.out.content.master_agent_detected
                = PyBool(FlaggedHub(G[Backend], call'.data.s))]_vars

\* predict has answered on a graph loaded from a rebuilt cache, whose
\* threshold is not the one of the graph the backend built from its own df
C21_Witness ==
    /\ Predicted /\ call.out.status = 200
    /\ Serving(Backend)
    /\ G[Backend] = BuildGraph(csv)
    /\ LET own == BuildGraph(HeadRows(csv, HeadN))
           id == call.data.s
       IN  /\ G[Backend] # own
           /\ FlaggedHub(G[Backend], id) # FlaggedHub(own, id)
           /\ call.out.content.master_agent_detected = PyBool(FlaggedHub(G[Backend], id))

(***************************************************************************)
(* C22: the cache is a snapshot of the graph built most recently: after    *)
(* any sequence of builds (by the backend, by build_cache.py, by the       *)
(* dashboard's fallback) a cache file that is there holds the nodes and    *)
(* the edges of the graph built last, and a process that loads it gets     *)
(* exactly that graph.                                                     *)
(***************************************************************************)
SameGraph(g, h) == g.nodes = h.nodes /\ g.edges = h.edges

\* process p went from not started to serving a graph it loaded
Loads(p) == proc[p] = "down" /\ proc'[p] = "serving" /\ cache.exists

C22_CacheIsLastBuilt ==
    /\ [](cache.exists => SameGraph(cache.graph, built))
    /\ [][\A p \in Processes : Loads(p) => SameGraph(G'[p], built)]_vars

\* both processes serve the graph of an explicit rebuild, which they loaded:
\* it is not the graph the backend builds from its own df
C22_Witness ==
    /\ cache.exists
    /\ built = BuildGraph(csv)
    /\ ~SameGraph(built, BuildGraph(HeadRows(csv, HeadN)))
    /\ \A p \in Processes : Serving(p) /\ SameGraph(G[p], built)
    /\ builtFrom[Backend] # HeadRows(csv, HeadN)

(***************************************************************************)
(* C23: no automatic invalidation. When a cache file exists, build_graph   *)
(* returns the cached graph, whatever records it was given, and leaves the *)
(* file as it is; the backend writes the file only when there was none;    *)
(* and the content of the file changes only through an explicit rebuild.   *)
(***************************************************************************)
\* the backend went from not started to serving
BackendStarts == proc[Backend] = "down" /\ proc'[Backend] = "serving"

C23_NoAutomaticInvalidation ==
    [][/\ (BackendStarts /\ cache.exists)
            => (SameGraph(G'[Backend], cache.graph) /\ cache' = cache)
       /\ (cache' # cache)
            => \/ RunBuildCache
               \/ BackendStarts /\ ~cache.exists
                    /\ cache'.graph = BuildGraph(HeadRows(csv, HeadN))]_vars

\* the backend alone is up, on a cached graph of records other than its df:
\* the graph it would have built from df is another one
C23_Witness ==
    /\ Serving(Backend) /\ proc[Dashboard] = "down"
    /\ cache.exists /\ cache.from = csv
    /\ cache.from # HeadRows(csv, HeadN)
    /\ SameGraph(G[Backend], cache.graph)
    /\ ~SameGraph(G[Backend], BuildGraph(HeadRows(csv, HeadN)))

(***************************************************************************)
(* C24: in the fraud-network backend the graph in service corresponds to   *)
(* the record set df in service, also when it was loaded from the cache:   *)
(* its nodes are the beneficiary ids of df, two nodes are adjacent iff     *)
(* their df records share a linking-attribute value, and so every id that  *)
(* predict accepts is a node and is reported in a component of size >= 1.  *)
(***************************************************************************)
C24_GraphMatchesRecords ==
    Serving(Backend) =>
        /\ IsLinkGraph(G[Backend], HeadRows(csv, HeadN))
        /\ Predicted =>
              /\ PredictedId \in G[Backend].nodes
              /\ call.out.content.connected_component_size.n >= 1

(***************************************************************************)
(* C25: when more than one stage of a request returns a failure, the       *)
(* abort response of pipeline_basic is the one of the first failing stage  *)
(* in the fixed order anomaly, duplicate, fraud: its status and content,   *)
(* whatever the order in which the stage threads completed.                *)
(***************************************************************************)
\* the stages of r whose result makes pipeline_basic abort: failures, but
\* for a fraud stage that did not find the beneficiary
AbortingStages(r) ==
    {s \in Stages : /\ IsFailure(StageValue(r, s))
                    /\ ~(s = "fraud" /\ IsNotFound(StageValue(r, s)))}

\* the first stage of set in the order of TaskOrder
FirstInOrder(set) ==
    TaskOrder[CHOOSE i \in 1..3 : /\ TaskOrder[i] \in set
                                  /\ \A j \in 1..(i - 1) : TaskOrder[j] \notin set]

C25_AbortByFixedPrecedence ==
    \A r \in Requests :
        (AnsweredAfterStages(r) /\ Cardinality(AbortingStages(r)) >= 2)
            => LET v == StageValue(r, FirstInOrder(AbortingStages(r)))
               IN  resp[r] = <<Response(FailureStatus(v), ContentOf(v))>>

\* all three stages failed, each in its own way, and completed in the order
\* fraud, duplicate, anomaly: the answer is the failure of the anomaly stage
C25_Witness ==
    /\ AnsweredAfterStages(1)
    /\ AbortingStages(1) = Stages
    /\ arrival[1] = <<"fraud", "duplicate", "anomaly">>
    /\ ContentOf(StageValue(1, "anomaly")) # ContentOf(StageValue(1, "duplicate"))
    /\ FailureStatus(StageValue(1, "fraud")) = 500
    /\ resp[1] = <<Response(400, StageValue(1, "anomaly"))>>
    /\ pc[1] = "AbortedHard"

(***************************************************************************)
(* C26: every pipeline_basic request eventually gets exactly one response, *)
(* provided its extraction and stage threads return: the aggregated result *)
(* or one error response. An exception is turned into a single 500; no     *)
(* request stays unanswered and none is answered twice.                    *)
(***************************************************************************)
Terminal(r) == pc[r] \in {"Aggregated", "AbortedHard"}

C26_ExactlyOneResponse ==
    /\ [](\A r \in Requests : /\ Len(resp[r]) <= 1
                               /\ Terminal(r) => Len(resp[r]) = 1)
    /\ (pc[1] = "Received") ~> (Terminal(1) /\ Len(resp[1]) = 1)

\* the extraction raised, and the request was answered once, with a 500
C26_Witness ==
    /\ doc[1].kind = "broken"
    /\ pc[1] = "AbortedHard"
    /\ Len(resp[1]) = 1
    /\ resp[1][1].status = 500
    /\ \A s \in Stages : done[1][s] = NotStarted

(***************************************************************************)
(* C27: when the extraction finds no Beneficiary ID, pipeline_basic takes  *)
(* the fixed id 'BEN0001' and dispatches all stages. The missing id never  *)
(* aborts the request: an abort then comes from a failing stage result.    *)
(* The fraud stage is queried for 'BEN0001', and that is the id the        *)
(* fraud_network_analysis entry of the result reports.                     *)
(***************************************************************************)
\* the document of r was read and no Beneficiary ID was found in it
NoBeneficiaryId(r) ==
    /\ pc[r] \notin {"Idle", "Received", "Cancelled"}
    /\ ~ExtractionFailed(r)
    /\ "Beneficiary ID" \notin DOMAIN nlp_result[r].regex_results

DefaultId == PyStr("BEN0001")

C27_MissingIdDefaults ==
    \A r \in Requests :
        NoBeneficiaryId(r) =>
            /\ features[r].beneficiary_id = DefaultId
            /\ \/ pc[r] = "FeaturesNormalized" /\ ENABLED Dispatch(r)
               \/ Dispatched(r)
            /\ (IsOutcome(done[r]["fraud"]) /\ IsSuccess(StageValue(r, "fraud")))
                  => ContentOf(StageValue(r, "fraud")).beneficiary_id = DefaultId
            /\ pc[r] = "AbortedHard"
                  => (AllStagesDone(r) /\ AbortingStages(r) # {})
            /\ pc[r] = "Aggregated"
                  => resp[r][1].content.fraud_network_analysis.beneficiary_id = DefaultId

\* a document with every field but the Beneficiary ID went through all the
\* stages, and the result reports the fraud analysis of BEN0001
C27_Witness ==
    /\ NoBeneficiaryId(1)
    /\ DOMAIN nlp_result[1].regex_results = RegexFields \ {"Beneficiary ID"}
    /\ pc[1] = "Aggregated"
    /\ resp[1][1].status = 200
    /\ resp[1][1].content.fraud_network_analysis.beneficiary_id = DefaultId
    /\ resp[1][1].content.fraud_network_analysis.connected_component_size = PyInt(2)

(***************************************************************************)
(* C28: in a graph without edges predict flags every node as master agent: *)
(* all scores are equal, so each one reaches the 95th-percentile           *)
(* threshold. More generally a node whose score equals the threshold is    *)
(* flagged, the comparison being non-strict.                               *)
(***************************************************************************)
\* the score of node id of g is exactly the threshold of g
AtThreshold(g, id) ==
    \A dc \in {degree_centrality(g)} :
        \A q \in {quantile_95(dc)} : FracGeq(dc[id], q) /\ FracGeq(q, dc[id])

C28_TiesAreFlagged ==
    (Predicted /\ Serving(Backend)) =>
        /\ G[Backend].edges = {}
              => call.out.content.master_agent_detected = PyBool(TRUE)
        /\ AtThreshold(G[Backend], PredictedId)
              => call.out.content.master_agent_detected = PyBool(TRUE)

\* four records that share nothing: the node asked about has score 0, which
\* is the threshold, and is reported as master agent
C28_Witness ==
    /\ Predicted /\ Serving(Backend)
    /\ Cardinality(G[Backend].nodes) = 4
    /\ G[Backend].edges = {}
    /\ AtThreshold(G[Backend], PredictedId)
    /\ call.out.content.degree_centrality = PyFloat4(0)
    /\ call.out.content.master_agent_detected = PyBool(TRUE)

(***************************************************************************)
(* C29: after any interleaving of k /decide requests, one after another or *)
(* at the same time, the persisted audit log has grown by exactly k        *)
(* entries, one for each request with its case_id and decision; entries    *)
(* written earlier are not removed by the load-modify-save of another      *)
(* request.                                                                *)
(***************************************************************************)
\* the /decide requests that have been carried out
Decided == {a \in AdminRequests : handler[a].fn = "decide" /\ handler[a].pc = "Done"}

\* how many entries of the log carry this case_id and decision
EntriesOf(log, case_id, decision) ==
    Cardinality({i \in DOMAIN log : log[i].case_id = case_id /\ log[i].decision = decision})

C29_AuditGrowsByOnePerDecision ==
    /\ Len(decisions.audit) = Cardinality(Decided)
    /\ \A a \in Decided :
          EntriesOf(decisions.audit, handler[a].case_id, handler[a].decision)
            = Cardinality({b \in Decided : /\ handler[b].case_id = handler[a].case_id
                                           /\ handler[b].decision = handler[a].decision})

(***************************************************************************)
(* C30: /init-cases is idempotent and non-destructive. It seeds the two    *)
(* demo cases only when the stored case list is empty; on a store that     *)
(* holds cases it changes neither the cases nor their status and notes; it *)
(* never modifies the audit log; and calling it twice leaves the store as  *)
(* calling it once does.                                                   *)
(***************************************************************************)
\* request a is an /init-cases that completes in this step
InitCasesCompletes(a) ==
    /\ handler[a].fn = "init_cases"
    /\ handler[a].pc = "Loaded"
    /\ handler'[a].pc = "Done"

C30_InitCasesNonDestructive ==
    [][\A a \in AdminRequests :
          InitCasesCompletes(a) =>
              /\ decisions'.audit = decisions.audit
              /\ decisions.cases # <<>> => decisions'.cases = decisions.cases
              /\ decisions.cases = <<>> => decisions'.cases = DemoCases
              /\ seed_cases(seed_cases(handler[a].data)) = seed_cases(handler[a].data)]_vars

====
